---- MODULE Spec2Model ----
(***************************************************************************)
(* A model of the PDF knowledge store of python-backend: the ingestion     *)
(* pipeline (pdf_processing.py), the store and the upload handler (db.py,  *)
(* api.py, file_storage.py) and the search functions (search.py).          *)
(*                                                                         *)
(* Texts are sequences of tokens: a word of the vocabulary, or " " for a   *)
(* run of whitespace.  str.split() keeps the words; " ".join() of a word   *)
(* list is the list itself.  Floats that the code only copies or compares  *)
(* are kept in hundredths (importance 1.2 is 120); a quotient a / b is kept *)
(* as the pair [num |-> a, den |-> b].                                     *)
(***************************************************************************)
EXTENDS Integers, Sequences, FiniteSets, TLC

VARIABLES
    arg,    \* the argument of the function a function-level specification applies
    ret,    \* <<what that function returned>>, <<>> before the call
    files,  \* the upload directory: the file ids saved in it
    db,     \* the committed rows of the store, one set per table
    up,     \* the upload requests: each one's position and local variables
    resp    \* <<the outcome of the last search call>>, <<>> before any

vars == <<arg, ret, files, db, up, resp>>

(***************************************************************************)
(* Program constants                                                       *)
(***************************************************************************)
CHUNK_SIZE == 500
EMBEDDING_DIM == 768
FIRST_PAGE_IMPORTANCE == 120
PAGE_IMPORTANCE == 100
FALLBACK_IMPORTANCE == 50
FALLBACK_TOKEN_COUNT == 5
CO_OCCURRENCE_CONFIDENCE == 50
TOPIC_LIMIT == 5
SECTION_DEPTH == 5
SEARCH_LIMIT == 10
CHAT_LIMIT == 15

(***************************************************************************)
(* Bounds of the model                                                     *)
(***************************************************************************)
MaxPages == 2        \* pages of a document drawn for ingest_pdf
MaxDocTokens == 3    \* text tokens of a document drawn for ingest_pdf, all pages together
MaxChunks == 2       \* chunks of a chunk list drawn for extract_entities
MaxListWords == 4    \* words of such a chunk list, all chunks together
MaxUploads == 2      \* upload requests of the system specification
MaxQueryTokens == 2  \* tokens of a query drawn for a search function
MaxLimit == 2        \* the greatest limit drawn for a search function

(***************************************************************************)
(* The vocabulary, the tokenizer and the NER model.  Token counts are      *)
(* synthetic: one word alone exceeds the budget, two words fill it         *)
(* exactly, and two others overflow it.                                    *)
(***************************************************************************)
WS == " "
Words == {"Alpha", "ALPHA", "alpha", "Beta", "Pneumonoultramicroscopic"}

\* len(tokenizer.encode(word))
TokenCount(word) ==
    CASE word = "Beta" -> 300
      [] word = "Pneumonoultramicroscopic" -> 501
      [] OTHER -> 200

\* str.lower()
Lower(word) ==
    CASE word \in {"Alpha", "ALPHA"} -> "alpha"
      [] word = "Beta" -> "beta"
      [] word = "Pneumonoultramicroscopic" -> "pneumonoultramicroscopic"
      [] word = "No" -> "no"
      [] word = "Error" -> "error"
      [] word = "PDF" -> "pdf"
      [] OTHER -> word

\* ent.label_ of the span the NER model finds on a word; "" when it finds none
NerLabel(word) ==
    CASE word \in {"Alpha", "ALPHA", "Beta"} -> "ORG"
      [] word = "alpha" -> "PER"
      [] OTHER -> ""

\* str.split(): the words of a text, its whitespace dropped
Split(text) == SelectSeq(text, LAMBDA t : t # WS)

\* embedder.encode(text): a vector that is a function of the text
Encode(text) == [vec |-> "emb", of |-> text]
ZeroVector == [vec |-> "zero", of |-> <<>>]

RECURSIVE SumSeq(_)
SumSeq(s) == IF s = <<>> THEN 0 ELSE Head(s) + SumSeq(Tail(s))

RECURSIVE Flatten(_)
Flatten(ss) == IF ss = <<>> THEN <<>> ELSE Head(ss) \o Flatten(Tail(ss))

Range(s) == {s[i] : i \in DOMAIN s}

(***************************************************************************)
(* ingest_pdf: the chunker                                                 *)
(***************************************************************************)
FallbackContent == <<"No", "text", "could", "be", "extracted", "from", "this", "page">>
FallbackEmbeddedText == <<"No", "text">>

\* a chunk record that keeps the first word of the chunk only
FirstWordChunk(uid, page_number, chunk_index, words, token_count, seq) ==
    [ id |-> <<uid, "chunk", seq>>,
      document_id |-> <<uid, "doc", 0>>,
      page_number |-> page_number,
      chunk_index |-> chunk_index,
      content |-> <<Head(words)>>,
      content_type |-> "text",
      section_path |-> << <<"Page", page_number>> >>,
      embedding |-> Encode(<<Head(words)>>),
      token_count |-> token_count,
      importance |-> IF page_number = 1 THEN FIRST_PAGE_IMPORTANCE ELSE PAGE_IMPORTANCE ]

\* the chunk record built at pdf_processing.py 399-410 and 420-431
TextChunk(uid, page_number, chunk_index, words, token_count, seq) ==
    [ id |-> <<uid, "chunk", seq>>,
      document_id |-> <<uid, "doc", 0>>,
      page_number |-> page_number,
      chunk_index |-> chunk_index,
      content |-> words,
      content_type |-> "text",
      section_path |-> << <<"Page", page_number>> >>,
      embedding |-> Encode(words),
      token_count |-> token_count,
      importance |-> IF page_number = 1 THEN FIRST_PAGE_IMPORTANCE ELSE PAGE_IMPORTANCE ]

\* the chunk record built at pdf_processing.py 436-447
FallbackChunk(uid, page_number, chunks) ==
    [ id |-> <<uid, "chunk", Len(chunks) + 1>>,
      document_id |-> <<uid, "doc", 0>>,
      page_number |-> page_number,
      chunk_index |-> Len(chunks),
      content |-> FallbackContent,
      content_type |-> "text",
      section_path |-> << <<"Page", page_number>> >>,
      embedding |-> Encode(FallbackEmbeddedText),
      token_count |-> FALLBACK_TOKEN_COUNT,
      importance |-> FALLBACK_IMPORTANCE ]

\* the flush test taken on the count before the word is added
OverflowsBeforeWord(current_token_count, tokens) == current_token_count > CHUNK_SIZE

\* the flush test of the word loop
Overflows(current_token_count, tokens) == current_token_count + tokens > CHUNK_SIZE

\* one pass of the word loop: st = [chunks, current_chunk, current_token_count, chunk_index]
RECURSIVE WordLoop(_, _, _, _)
WordLoop(uid, page_number, words, st) ==
    IF words = <<>> THEN st
    ELSE
        LET word == Head(words)
            tokens == TokenCount(word)
            flush == Overflows(st.current_token_count, tokens) /\ st.current_chunk # <<>>
            s1 == IF flush
                  THEN [ chunks |-> Append(st.chunks,
                                      TextChunk(uid, page_number, st.chunk_index,
                                                st.current_chunk, st.current_token_count,
                                                Len(st.chunks) + 1)),
                         current_chunk |-> <<>>,
                         current_token_count |-> 0,
                         chunk_index |-> st.chunk_index + 1 ]
                  ELSE st
        IN  WordLoop(uid, page_number, Tail(words),
                     [s1 EXCEPT !.current_chunk = Append(@, word),
                                !.current_token_count = @ + tokens])

\* an index that starts again at 0 on every page
PageLocalIndex(chunks) == 0

\* chunk_index = len(chunks): the index the first chunk of a page gets
StartIndex(chunks) == Len(chunks)

\* the chunks of one page appended to the document's chunks: the word loop, the
\* flush of what remains, and the fallback chunk of a page that got no chunk
ChunkPage(uid, page_number, page_text, chunks) ==
    LET st == IF page_text # <<>>
              THEN WordLoop(uid, page_number, Split(page_text),
                            [ chunks |-> chunks, current_chunk |-> <<>>,
                              current_token_count |-> 0, chunk_index |-> StartIndex(chunks) ])
              ELSE [ chunks |-> chunks, current_chunk |-> <<>>,
                     current_token_count |-> 0, chunk_index |-> StartIndex(chunks) ]
        flushed == IF st.current_chunk # <<>>
                   THEN Append(st.chunks,
                               TextChunk(uid, page_number, st.chunk_index, st.current_chunk,
                                         st.current_token_count, Len(st.chunks) + 1))
                   ELSE st.chunks
    IN  IF \E i \in DOMAIN flushed : flushed[i].page_number = page_number
        THEN flushed
        ELSE Append(flushed, FallbackChunk(uid, page_number, flushed))

\* the page loop: every page's chunks, in page order
RECURSIVE ChunkPages(_, _, _, _)
ChunkPages(uid, pdf_pages, page_num, chunks) ==
    IF page_num >= Len(pdf_pages) THEN chunks
    ELSE ChunkPages(uid, pdf_pages, page_num + 1,
                    ChunkPage(uid, page_num + 1, pdf_pages[page_num + 1].text, chunks))

\* page records for the pages that have words only
PageRecordsOfText(uid, pdf_pages) ==
    LET all == [ n \in 1..Len(pdf_pages) |->
                   [ document_id |-> <<uid, "doc", 0>>, page_number |-> n,
                     has_table |-> pdf_pages[n].has_table ] ]
    IN  SelectSeq(all, LAMBDA r : Split(pdf_pages[r.page_number].text) # <<>>)

\* the page records
PageRecords(uid, pdf_pages) ==
    [ n \in 1..Len(pdf_pages) |->
        [ document_id |-> <<uid, "doc", 0>>, page_number |-> n,
          has_table |-> pdf_pages[n].has_table ] ]

(***************************************************************************)
(* extract_entities                                                        *)
(***************************************************************************)
\* the character offset at which word i of a joined word list starts
RECURSIVE StartChar(_, _)
StartChar(words, i) == IF i <= 1 THEN 0 ELSE StartChar(words, i - 1) + Len(words[i - 1]) + 1

\* nlp(text).ents: the spans the NER model finds, in text order
Ents(words) ==
    LET idx == SelectSeq([i \in 1..Len(words) |-> i], LAMBDA i : NerLabel(words[i]) # "")
    IN  [ k \in 1..Len(idx) |->
            [ text |-> words[idx[k]], label_ |-> NerLabel(words[idx[k]]),
              start_char |-> StartChar(words, idx[k]),
              end_char |-> StartChar(words, idx[k]) + Len(words[idx[k]]) ] ]

\* the position of the entity with this normalized name, whatever its type
NameIndex(entity_groups, normalized_name, entity_type) ==
    LET hits == { i \in DOMAIN entity_groups :
                    entity_groups[i].normalized_name = normalized_name }
    IN  IF hits = {} THEN 0 ELSE CHOOSE i \in hits : TRUE

\* the position of the entity with this key in entity_groups, 0 when it has none
KeyIndex(entity_groups, normalized_name, entity_type) ==
    LET hits == { i \in DOMAIN entity_groups :
                    /\ entity_groups[i].normalized_name = normalized_name
                    /\ entity_groups[i].type = entity_type }
    IN  IF hits = {} THEN 0 ELSE CHOOSE i \in hits : TRUE

\* the mention loop of one chunk: st = [entity_groups, chunk_entities]
RECURSIVE MentionLoop(_, _, _, _)
MentionLoop(uid, chunk_id, ents, st) ==
    IF ents = <<>> THEN st
    ELSE
        LET ent == Head(ents)
            normalized_name == Lower(ent.text)
            k0 == KeyIndex(st.entity_groups, normalized_name, ent.label_)
            groups1 == IF k0 = 0
                       THEN Append(st.entity_groups,
                                   [ id |-> <<uid, "ent", Len(st.entity_groups) + 1>>,
                                     type |-> ent.label_,
                                     name |-> ent.text,
                                     normalized_name |-> normalized_name,
                                     occurrences |-> <<>>,
                                     importance |-> 0,
                                     description |-> "" ])
                       ELSE st.entity_groups
            k == IF k0 = 0 THEN Len(groups1) ELSE k0
            groups2 == [groups1 EXCEPT
                          ![k].occurrences = Append(@, [ chunk_id |-> chunk_id,
                                                         start |-> ent.start_char,
                                                         end |-> ent.end_char ]),
                          ![k].importance = @ + 1]
        IN  MentionLoop(uid, chunk_id, Tail(ents),
                        [ entity_groups |-> groups2,
                          chunk_entities |-> Append(st.chunk_entities, groups2[k].id) ])

\* the index pairs the relationship loops visit for a chunk_entities list of length n
RelationshipPairs(n) ==
    LET pairs == { p \in (1..n) \X (1..n) : p[1] < p[2] }
        Before(p, q) == p[1] < q[1] \/ (p[1] = q[1] /\ p[2] < q[2])
    IN  IF n > 1
        THEN [ k \in 1..Cardinality(pairs) |->
                 CHOOSE p \in pairs : Cardinality({q \in pairs : Before(q, p)}) = k - 1 ]
        ELSE <<>>

\* the relationship records of one chunk, appended to those made so far
ChunkRelationships(uid, chunk_id, chunk_entities, relationships) ==
    LET pairs == RelationshipPairs(Len(chunk_entities))
    IN  relationships \o
        [ k \in 1..Len(pairs) |->
            [ id |-> <<uid, "rel", Len(relationships) + k>>,
              source_entity_id |-> chunk_entities[pairs[k][1]],
              target_entity_id |-> chunk_entities[pairs[k][2]],
              type |-> "co-occurrence",
              confidence |-> CO_OCCURRENCE_CONFIDENCE,
              description |-> "Entities appear in the same chunk",
              chunk_ids |-> <<chunk_id>> ] ]

\* the chunk loop: acc = [entity_groups, relationships]
RECURSIVE ChunkLoop(_, _, _)
ChunkLoop(uid, chunks, acc) ==
    IF chunks = <<>> THEN acc
    ELSE
        LET chunk == Head(chunks)
        IN  IF chunk.content_type # "text"
            THEN ChunkLoop(uid, Tail(chunks), acc)
            ELSE
                LET st == MentionLoop(uid, chunk.id, Ents(chunk.content),
                                      [ entity_groups |-> acc.entity_groups,
                                        chunk_entities |-> <<>> ])
                IN  ChunkLoop(uid, Tail(chunks),
                              [ entity_groups |-> st.entity_groups,
                                relationships |->
                                    ChunkRelationships(uid, chunk.id, st.chunk_entities,
                                                       acc.relationships) ])

\* the count of the first entity in place of the greatest count
FirstImportance(entities) ==
    IF entities = <<>> THEN 1 ELSE entities[1].importance

\* max(importance of the entities, default=1)
MaxImportance(entities) ==
    IF entities = <<>> THEN 1
    ELSE LET counts == {entities[i].importance : i \in DOMAIN entities}
         IN  CHOOSE m \in counts : \A c \in counts : c <= m

\* importance / max_importance if max_importance > 0 else 0, as a quotient
Normalised(importance, max_importance) ==
    IF max_importance > 0
    THEN [num |-> importance, den |-> max_importance]
    ELSE [num |-> 0, den |-> 1]

\* extract_entities(chunks): (entities, relationships)
ExtractEntities(uid, chunks) ==
    LET acc == ChunkLoop(uid, chunks, [entity_groups |-> <<>>, relationships |-> <<>>])
        entities == acc.entity_groups
        max_importance == MaxImportance(entities)
    IN  [ entities |-> [ i \in DOMAIN entities |->
                           [entities[i] EXCEPT
                              !.importance = Normalised(@, max_importance)] ],
          relationships |-> acc.relationships ]

(***************************************************************************)
(* ingest_pdf                                                              *)
(***************************************************************************)
\* the points at which a collaborator of ingest_pdf can raise: opening the file,
\* embedder.encode, nlp (inside extract_entities), the summarizer
FailPoints == {"none", "open", "embed", "ner", "summarize"}

\* Counter(entity_types).most_common(5): the types by falling count, ties in
\* order of first appearance
Topics(entities) ==
    LET types == {entities[i].type : i \in DOMAIN entities}
        Count(t) == Cardinality({i \in DOMAIN entities : entities[i].type = t})
        First(t) == CHOOSE i \in DOMAIN entities :
                        /\ entities[i].type = t
                        /\ \A j \in DOMAIN entities : entities[j].type = t => i <= j
        Before(u, t) == Count(u) > Count(t) \/ (Count(u) = Count(t) /\ First(u) < First(t))
        ranked == [ k \in 1..Cardinality(types) |->
                      CHOOSE t \in types : Cardinality({u \in types : Before(u, t)}) = k - 1 ]
    IN  SubSeq(ranked, 1, IF Len(ranked) < TOPIC_LIMIT THEN Len(ranked) ELSE TOPIC_LIMIT)

\* dates as day numbers: the creationDate of the PDFs read, and
\* datetime.now() of the except clause, which is later
PDF_DATE == 1
NOW == 2

\* an id derived from the content of the file
ContentHashId(uid, pdf) == <<Len(pdf.pages), "doc", 0>>

\* "id": str(uuid.uuid4()): the id of the document is drawn anew in every run
NewDocumentId(uid, pdf) == <<uid, "doc", 0>>

\* what ingest_pdf returns when nothing raises
IngestOk(uid, pdf) ==
    LET chunks == ChunkPages(uid, pdf.pages, 0, <<>>)
        pages == PageRecords(uid, pdf.pages)
        ex == ExtractEntities(uid, chunks)
    IN  [ metadata |-> [ id |-> NewDocumentId(uid, pdf),
                         title |-> "Extracted",
                         author |-> "Unknown",
                         creation_date |-> PDF_DATE,
                         language |-> "en",
                         document_type |-> "pdf",
                         page_count |-> Len(pdf.pages),
                         table_count |-> Cardinality({n \in DOMAIN pages : pages[n].has_table}),
                         topics |-> Topics(ex.entities) ],
          chunks |-> chunks,
          pages |-> pages,
          entities |-> ex.entities,
          relationships |-> ex.relationships ]

\* what the outer except clause of ingest_pdf returns
IngestError(uid) ==
    [ metadata |-> [ id |-> <<uid, "doc", 1>>,
                     title |-> "Error Processing PDF",
                     author |-> "Unknown",
                     creation_date |-> NOW,
                     language |-> "en",
                     document_type |-> "pdf",
                     page_count |-> 1,
                     table_count |-> 0,
                     topics |-> <<>> ],
      chunks |-> << [ id |-> <<uid, "chunk", 0>>,
                      document_id |-> <<uid, "doc", 1>>,
                      page_number |-> 1,
                      chunk_index |-> 0,
                      content |-> <<"Error", "processing", "PDF">>,
                      content_type |-> "text",
                      section_path |-> << <<"Error", 0>> >>,
                      embedding |-> ZeroVector,
                      token_count |-> FALLBACK_TOKEN_COUNT,
                      importance |-> FALLBACK_IMPORTANCE ] >>,
      pages |-> << [ document_id |-> <<uid, "doc", 1>>, page_number |-> 1,
                     has_table |-> FALSE ] >>,
      entities |-> <<>>,
      relationships |-> <<>> ]

\* whether the collaborator named by fail is called at all on this document
Raises(pdf, fail) ==
    CASE fail = "none" -> FALSE
      [] fail = "ner" ->
            \E i \in DOMAIN ChunkPages(0, pdf.pages, 0, <<>>) :
                ChunkPages(0, pdf.pages, 0, <<>>)[i].content_type = "text"
      [] OTHER -> TRUE

\* ingest_pdf(file_path)
IngestPdf(uid, pdf, fail) ==
    IF Raises(pdf, fail) THEN IngestError(uid) ELSE IngestOk(uid, pdf)

(***************************************************************************)
(* The inputs drawn for the function-level specifications                  *)
(***************************************************************************)
SeqsUpTo(S, n) == UNION { [1..k -> S] : k \in 0..n }

\* the ways to cut a sequence of length n into p consecutive pieces
Cuts(n, p) == { c \in [1..p -> 0..n] : SumSeq(c) = n }

RECURSIVE Offset(_, _)
Offset(c, i) == IF i <= 1 THEN 0 ELSE Offset(c, i - 1) + c[i - 1]

Pieces(s, c) == [ i \in DOMAIN c |-> SubSeq(s, Offset(c, i) + 1, Offset(c, i) + c[i]) ]

PageTokens == {WS, "Alpha", "Beta", "Pneumonoultramicroscopic"}

\* a document drawn for ingest_pdf: the tokens s cut into pages by c, with the
\* table flags t
Pdf(s, c, t) ==
    [ pages |-> [ i \in DOMAIN c |-> [ text |-> Pieces(s, c)[i], has_table |-> t[i] ] ] ]

EntityWords == {"Alpha", "ALPHA", "alpha", "Beta"}

\* a chunk list drawn for extract_entities: the words s cut into chunks by c, with
\* the content types t
ChunkList(s, c, t) ==
    [ i \in DOMAIN c |->
        [ id |-> <<1, "chunk", i>>, content |-> Pieces(s, c)[i], content_type |-> t[i] ] ]

(***************************************************************************)
(* SpecIngest applies ingest_pdf to a drawn document; SpecEntities applies *)
(* extract_entities to a drawn chunk list.                                 *)
(***************************************************************************)
Idle ==
    /\ files = {}
    /\ db = [documents |-> {}, pages |-> {}, chunks |-> {}, entities |-> {}, relationships |-> {}]
    /\ up = <<>>
    /\ resp = <<>>

InitIngest ==
    /\ \E s \in SeqsUpTo(PageTokens, MaxDocTokens), p \in 1..MaxPages, f \in FailPoints :
         \E c \in Cuts(Len(s), p), t \in [1..p -> BOOLEAN] :
            arg = [pdf |-> Pdf(s, c, t), fail |-> f]
    /\ ret = <<>>
    /\ Idle

CallIngestPdf ==
    /\ ret = <<>>
    /\ ret' = <<IngestPdf(1, arg.pdf, arg.fail)>>
    /\ UNCHANGED <<arg, files, db, up, resp>>

SpecIngest == InitIngest /\ [][CallIngestPdf]_vars

InitEntities ==
    /\ \E s \in SeqsUpTo(EntityWords, MaxListWords), p \in 0..MaxChunks :
         \E c \in Cuts(Len(s), p), t \in [1..p -> {"text", "table"}] :
            arg = ChunkList(s, c, t)
    /\ ret = <<>>
    /\ Idle

CallExtractEntities ==
    /\ ret = <<>>
    /\ ret' = <<ExtractEntities(1, arg)>>
    /\ UNCHANGED <<arg, files, db, up, resp>>

SpecEntities == InitEntities /\ [][CallExtractEntities]_vars

(***************************************************************************)
(* The store (db.py) and the upload directory (file_storage.py)            *)
(***************************************************************************)
EmptyDb ==
    [documents |-> {}, pages |-> {}, chunks |-> {}, entities |-> {}, relationships |-> {}]

\* the objects upload_file builds from what ingest_pdf returned (api.py 105-135)
Rows(result) ==
    [ documents |-> {result.metadata},
      chunks |-> Range(result.chunks),
      pages |-> Range(result.pages),
      entities |-> { [ id |-> e.id, document_id |-> result.metadata.id, type |-> e.type,
                       name |-> e.name, normalized_name |-> e.normalized_name,
                       occurrences |-> e.occurrences, importance |-> e.importance,
                       description |-> e.description ] : e \in Range(result.entities) },
      relationships |-> { [ id |-> r.id, document_id |-> result.metadata.id,
                            source_entity_id |-> r.source_entity_id,
                            target_entity_id |-> r.target_entity_id, type |-> r.type,
                            confidence |-> r.confidence, description |-> r.description,
                            chunk_ids |-> r.chunk_ids ] : r \in Range(result.relationships) } ]

Tables == {"documents", "pages", "chunks", "entities", "relationships"}

\* store_data without the rollback: the document row added before the commit
\* raised stays
StoreDataNoRollback(store, rows, commit_ok) ==
    IF commit_ok
    THEN [ t \in {"documents", "pages", "chunks", "entities", "relationships"} |->
             store[t] \cup rows[t] ]
    ELSE [store EXCEPT !.documents = @ \cup rows.documents]

\* store_data(session, items): every item is added to the session and the session
\* is committed; when the commit raises the session is rolled back.  The value is
\* the committed store afterwards.
StoreData(store, rows, commit_ok) ==
    IF commit_ok
    THEN [ t \in Tables |-> store[t] \cup rows[t] ]
    ELSE store

\* a delete_file that leaves the directory as it is
KeepFile(dir, file_id, remove_ok) == dir

\* delete_file(document_id): the file is removed unless os.remove raises, which
\* delete_file swallows, returning False
DeleteFile(dir, file_id, remove_ok) ==
    IF remove_ok THEN dir \ {file_id} ELSE dir

(***************************************************************************)
(* upload_file (api.py 60-161).  Request i owns the fresh ids <<i, ..>>.   *)
(* Its steps are the points at which another request can run: after the    *)
(* file is saved, after ingest_pdf, after the look-up of an existing       *)
(* document, and after the transaction of store_data.                      *)
(***************************************************************************)
Uploads == 1..MaxUploads

FileId(i) == <<"file", i>>

\* the documents uploaded in the system specification
SamplePdfs ==
    { [ pages |-> << [text |-> <<"Alpha", "Beta">>, has_table |-> FALSE] >> ],
      [ pages |-> << [text |-> <<"Beta", WS, "Beta", "Alpha">>, has_table |-> FALSE],
                     [text |-> <<>>, has_table |-> TRUE] >> ],
      [ pages |-> << [text |-> <<WS>>, has_table |-> TRUE] >> ] }

\* deleted holds what delete_file returned once upload_file has called it
NewUpload ==
    [pc |-> "new", result |-> <<>>, raised |-> "none", outcome |-> "none", deleted |-> <<>>]

\* save_uploaded_file, or the rejection of a file that is no PDF
UploadSave(i) ==
    /\ up[i].pc = "new"
    /\ \E how \in {"not_pdf", "save_raises", "saved"} :
         CASE how = "not_pdf" ->
                /\ up' = [up EXCEPT ![i].pc = "done", ![i].outcome = "http_400"]
                /\ UNCHANGED files
           [] how = "save_raises" ->
                /\ up' = [up EXCEPT ![i].pc = "done", ![i].outcome = "http_500"]
                /\ UNCHANGED files
           [] OTHER ->
                /\ up' = [up EXCEPT ![i].pc = "saved"]
                /\ files' = files \cup {FileId(i)}
    /\ UNCHANGED <<arg, ret, db, resp>>

\* ingest_pdf(file_path) on the saved file; raised is the collaborator whose
\* exception ingest_pdf logged, "none" when none raised
UploadIngest(i) ==
    /\ up[i].pc = "saved"
    /\ \E pdf \in SamplePdfs, fail \in FailPoints :
         up' = [up EXCEPT ![i].pc = "ingested",
                          ![i].result = <<IngestPdf(i, pdf, fail)>>,
                          ![i].raised = IF Raises(pdf, fail) THEN fail ELSE "none"]
    /\ UNCHANGED <<arg, ret, files, db, resp>>

\* the look-up of a stored document with the id ingest_pdf generated
UploadCheck(i) ==
    /\ up[i].pc = "ingested"
    /\ \E remove_ok \in BOOLEAN :
         IF \E d \in db.documents : d.id = up[i].result[1].metadata.id
         THEN /\ files' = DeleteFile(files, FileId(i), remove_ok)
              /\ up' = [up EXCEPT ![i].pc = "done", ![i].outcome = "exists",
                                   ![i].deleted = <<remove_ok>>]
         ELSE /\ up' = [up EXCEPT ![i].pc = "checked"]
              /\ UNCHANGED files
    /\ UNCHANGED <<arg, ret, db, resp>>

\* the transaction of store_data, and the except clause when it raises
UploadStore(i) ==
    /\ up[i].pc = "checked"
    /\ \E commit_ok \in BOOLEAN, remove_ok \in BOOLEAN :
         /\ db' = StoreData(db, Rows(up[i].result[1]), commit_ok)
         /\ IF commit_ok
            THEN /\ up' = [up EXCEPT ![i].pc = "done", ![i].outcome = "success"]
                 /\ UNCHANGED files
            ELSE /\ up' = [up EXCEPT ![i].pc = "done", ![i].outcome = "http_500",
                                      ![i].deleted = <<remove_ok>>]
                 /\ files' = DeleteFile(files, FileId(i), remove_ok)
    /\ UNCHANGED <<arg, ret, resp>>

(***************************************************************************)
(* search.py: what the store and the collaborators compute                 *)
(***************************************************************************)
\* the english stop words among the vocabulary
StopWords == {"of", "an", "no", "be", "from", "this", "could"}

\* words that contain one of table_related_terms
TableWords == {"table"}

\* to_tsvector('english', content): the lexemes of a text
TsVector(content) == {Lower(w) : w \in Range(Split(content))} \ StopWords

\* to_tsquery('english', search_terms): operands joined by "|"; two operands
\* without an operator between them are a syntax error; stop words are dropped,
\* and a query left without lexemes matches nothing
ToTsQuery(search_terms) ==
    LET toks == Split(search_terms)
        well_formed == \A i \in DOMAIN toks : (toks[i] = "|") <=> (i % 2 = 0)
    IN  IF toks # <<>> /\ (~well_formed \/ Len(toks) % 2 = 0)
        THEN [ok |-> FALSE, lexemes |-> {}]
        ELSE [ok |-> TRUE,
              lexemes |-> {Lower(toks[i]) : i \in {j \in DOMAIN toks : j % 2 = 1}} \ StopWords]

\* content @@ tsquery
TsMatch(content, lexemes) == TsVector(content) \cap lexemes # {}

\* ts_rank: grows with the occurrences of the query's lexemes, 0 without a match
TsRank(content, lexemes) ==
    10 * Cardinality({i \in DOMAIN content : Lower(content[i]) \in lexemes})

\* 1 - (embedding <=> query_embedding), in hundredths: the overlap of the embedded
\* text with the query text.  (The cosine distance to the zero vector is NaN; the
\* stores searched by vector hold embedded texts only.)
Similarity(query, embedding) ==
    LET q == {Lower(w) : w \in Range(Split(query))}
        c == {Lower(w) : w \in Range(embedding.of)}
    IN  IF q \cup c = {} THEN 100
        ELSE (100 * Cardinality(q \cap c)) \div Cardinality(q \cup c)

\* the rows of a table in the order the store returns them
RECURSIVE RowsInOrder(_)
RowsInOrder(rows) ==
    IF rows = {} THEN <<>>
    ELSE LET Before(a, b) == a.id[1] < b.id[1] \/ (a.id[1] = b.id[1] /\ a.id[3] < b.id[3])
             first == CHOOSE r \in rows : \A o \in rows \ {r} : Before(r, o)
         IN  <<first>> \o RowsInOrder(rows \ {first})

\* the rows left in the order of the store
Unsorted(rows) == rows

\* rows by falling score, rows of equal score in their given order
RECURSIVE SortDesc(_)
SortDesc(rows) ==
    IF rows = <<>> THEN <<>>
    ELSE LET best == CHOOSE i \in DOMAIN rows :
                        /\ \A j \in DOMAIN rows : rows[j].score <= rows[i].score
                        /\ \A j \in DOMAIN rows : rows[j].score = rows[i].score => i <= j
         IN  <<rows[best]>> \o
             SortDesc(SubSeq(rows, 1, best - 1) \o SubSeq(rows, best + 1, Len(rows)))

\* .offset(offset).limit(limit), and the slice [:limit]
Slice(rows, offset, limit) ==
    SubSeq(rows, offset + 1, IF offset + limit < Len(rows) THEN offset + limit ELSE Len(rows))

DocumentOf(store, document_id) ==
    IF \E d \in store.documents : d.id = document_id
    THEN {CHOOSE d \in store.documents : d.id = document_id}
    ELSE {}

\* the document_info of a result row
DocumentInfo(store, document_id) ==
    IF DocumentOf(store, document_id) = {}
    THEN [title |-> "Unknown", author |-> "Unknown", document_type |-> "Unknown"]
    ELSE LET d == CHOOSE d \in DocumentOf(store, document_id) : TRUE
         IN  [title |-> d.title, author |-> d.author, document_type |-> d.document_type]

\* Document.author.ilike('%pattern%')
ILike(author, pattern) ==
    \/ Lower(pattern) = Lower(author)
    \/ Lower(author) = "unknown" /\ Lower(pattern) \in {"unknown", "know", "un"}

\* apply_filters(query, filters): whether a chunk row passes; filters is a record
\* holding the keyword arguments that were passed
ApplyFilters(store, chunk, filters) ==
    LET keys == DOMAIN filters
        has_doc_filters == keys \cap {"author", "creation_date_start", "creation_date_end",
                                     "document_type", "topics", "language"} # {}
        docs == DocumentOf(store, chunk.document_id)
    IN  /\ has_doc_filters => docs # {}
        /\ \A d \in docs :
             /\ ("author" \in keys /\ filters.author # "") => ILike(d.author, filters.author)
             /\ "creation_date_start" \in keys => d.creation_date >= filters.creation_date_start
             /\ "creation_date_end" \in keys => d.creation_date <= filters.creation_date_end
             /\ ("document_type" \in keys /\ filters.document_type # "")
                    => d.document_type = filters.document_type
             /\ ("language" \in keys /\ filters.language # "") => d.language = filters.language
             /\ ("topics" \in keys /\ filters.topics # <<>>)
                    => Range(d.topics) \cap Range(filters.topics) # {}
        /\ "min_page" \in keys => chunk.page_number >= filters.min_page
        /\ "max_page" \in keys => chunk.page_number <= filters.max_page

(***************************************************************************)
(* search.py: the query embedding                                          *)
(***************************************************************************)
\* what embedder.encode(query) can give: it raises, or returns a NumPy array of
\* some shape, a list (of numbers, or of equally long lists of numbers), or
\* another object
EmbedderOutputs ==
    { [kind |-> "raises", shape |-> <<>>],
      [kind |-> "ndarray", shape |-> <<768>>],
      [kind |-> "ndarray", shape |-> <<1, 768>>],
      [kind |-> "ndarray", shape |-> <<2, 768>>],
      [kind |-> "ndarray", shape |-> <<767>>],
      [kind |-> "ndarray", shape |-> <<>>],
      [kind |-> "list", shape |-> <<768>>],
      [kind |-> "list", shape |-> <<769>>],
      [kind |-> "list", shape |-> <<0>>],
      [kind |-> "list", shape |-> <<1, 768>>],
      [kind |-> "list", shape |-> <<2, 767>>],
      [kind |-> "other", shape |-> <<>>] }

RECURSIVE Product(_)
Product(s) == IF s = <<>> THEN 1 ELSE Head(s) * Product(Tail(s))

\* "Ensure flat 1D list": query_embedding as [is_list, length]
FlatEmbedding(embedding) ==
    CASE embedding.kind = "ndarray" ->
            \* flatten() when ndim > 1, then tolist(): a 0-d array gives a number
            [is_list |-> Len(embedding.shape) > 0, length |-> Product(embedding.shape)]
      [] embedding.kind = "list" ->
            \* a list of lists is unwrapped to its first element
            [is_list |-> TRUE,
             length |-> IF Len(embedding.shape) > 1 /\ embedding.shape[1] > 0
                        THEN embedding.shape[2] ELSE embedding.shape[1]]
      [] OTHER -> [is_list |-> FALSE, length |-> 0]

\* the validation without the test of the length
ListEmbedding(query_embedding) == query_embedding.is_list

\* "Validate embedding"
ValidEmbedding(query_embedding) ==
    query_embedding.is_list /\ query_embedding.length = EMBEDDING_DIM

\* the exception the embedding steps end in, "" when query_embedding is valid
EmbeddingError(embedding) ==
    CASE embedding.kind = "raises" -> "embedding failed"
      [] embedding.kind = "ndarray" /\ embedding.shape = <<>> -> "IndexError"
      [] ~ValidEmbedding(FlatEmbedding(embedding)) -> "Expected 1D embedding of length 768"
      [] OTHER -> ""

(***************************************************************************)
(* search.py: the four search functions.  a is the arguments of the call,  *)
(* e what the collaborators do during it: e.session_ok (get_db_session     *)
(* returns), e.embedding (what the embedder gives), e.db_ok (the store     *)
(* executes the statements).  A call returns a dict or raises.             *)
(***************************************************************************)
Envelope(search_type, results, total) ==
    [ returned |-> TRUE, search_type |-> search_type, results |-> results, total |-> total,
      error |-> "", queried |-> TRUE ]

\* {'results': [], 'total': 0, 'error': str(e)}; queried tells whether a
\* statement had been sent to the store
ErrorEnvelope(message, queried) ==
    [ returned |-> TRUE, search_type |-> "", results |-> <<>>, total |-> 0,
      error |-> message, queried |-> queried ]

\* an exception leaves the function
Propagates(exception) ==
    [ returned |-> FALSE, search_type |-> "", results |-> <<>>, total |-> 0,
      error |-> exception, queried |-> FALSE ]

\* query.strip() is empty
Blank(query) == Split(query) = <<>>

\* " | ".join(term for term in query.split() if len(term) > 2) or query
SearchTerms(query) ==
    LET terms == SelectSeq(Split(query), LAMBDA t : Len(t) > 2)
    IN  IF terms = <<>> THEN query
        ELSE [ i \in 1..(2 * Len(terms) - 1) |-> IF i % 2 = 1 THEN terms[(i + 1) \div 2] ELSE "|" ]

\* the chunks of the document scope that pass the filters
InScope(store, a) ==
    { c \in store.chunks :
        /\ a.document_id.kind = "uuid" => c.document_id = a.document_id.id
        /\ ApplyFilters(store, c, a.filters) }

\* what the scope does to a statement: "" when it can run
ScopeError(document_id) ==
    CASE document_id.kind = "malformed" -> "badly formed hexadecimal UUID string"
      [] document_id.kind = "list" -> "statement error"
      [] OTHER -> ""

FulltextSearch(store, a, e) ==
    IF ~e.session_ok THEN Propagates("session")
    ELSE
    LET tsquery == ToTsQuery(SearchTerms(a.query))
        hits == { c \in InScope(store, a) : TsMatch(c.content, tsquery.lexemes) }
        rows == [ i \in DOMAIN RowsInOrder(hits) |->
                    LET c == RowsInOrder(hits)[i]
                    IN  [ chunk_id |-> c.id, document_id |-> c.document_id,
                          page_number |-> c.page_number,
                          score |-> TsRank(c.content, tsquery.lexemes),
                          document_info |-> DocumentInfo(store, c.document_id) ] ]
    IN  CASE a.document_id.kind = "malformed" ->
                ErrorEnvelope(ScopeError(a.document_id), FALSE)
          [] a.document_id.kind = "list" -> ErrorEnvelope(ScopeError(a.document_id), TRUE)
          [] ~tsquery.ok -> ErrorEnvelope("syntax error in tsquery", TRUE)
          [] ~e.db_ok -> ErrorEnvelope("database error", TRUE)
          [] OTHER -> Envelope("fulltext", Slice(SortDesc(rows), a.offset, a.limit),
                               Cardinality(hits))

\* the similarity alone, on the scale of the weighted one
PlainSimilarity(similarity, importance) == similarity * 100

\* weighted_similarity of vector_search, in 1/10000: similarity * importance
WeightedSimilarity(similarity, importance) == similarity * importance

VectorSearch(store, a, e) ==
    IF ~e.session_ok THEN Propagates("session")
    ELSE
    LET scope == InScope(store, a)
        rows == [ i \in DOMAIN RowsInOrder(scope) |->
                    LET c == RowsInOrder(scope)[i]
                        similarity == Similarity(a.query, c.embedding)
                    IN  [ chunk_id |-> c.id, document_id |-> c.document_id,
                          page_number |-> c.page_number,
                          similarity |-> similarity, importance |-> c.importance,
                          score |-> WeightedSimilarity(similarity, c.importance),
                          document_info |-> DocumentInfo(store, c.document_id) ] ]
    IN  CASE Blank(a.query) -> ErrorEnvelope("Query must be a non-empty string", FALSE)
          [] EmbeddingError(e.embedding) # "" ->
                ErrorEnvelope(EmbeddingError(e.embedding), FALSE)
          [] a.document_id.kind = "malformed" ->
                ErrorEnvelope(ScopeError(a.document_id), FALSE)
          [] a.document_id.kind = "list" -> ErrorEnvelope(ScopeError(a.document_id), TRUE)
          [] ~e.db_ok -> ErrorEnvelope("database error", TRUE)
          [] OTHER -> Envelope("vector", Slice(SortDesc(rows), a.offset, a.limit),
                               Cardinality(scope))

\* the combined score with the two weights changed over
SwappedScore(vector_weight, vector_sim, text_weight, text_rank) ==
    text_weight * vector_sim + vector_weight * text_rank

\* combined_score of hybrid_search, in 1/10000:
\* :vector_weight * (1 - distance) + :text_weight * COALESCE(ts_rank(...), 0)
CombinedScore(vector_weight, vector_sim, text_weight, text_rank) ==
    vector_weight * vector_sim + text_weight * text_rank

\* the statement of hybrid_search reads every chunk: it takes neither the
\* document scope nor the filters
HybridSearch(store, a, e) ==
    IF ~e.session_ok THEN Propagates("session")
    ELSE
    LET tsquery == ToTsQuery(SearchTerms(a.query))
        rows == [ i \in DOMAIN RowsInOrder(store.chunks) |->
                    LET c == RowsInOrder(store.chunks)[i]
                        vector_sim == Similarity(a.query, c.embedding)
                        text_rank == TsRank(c.content, tsquery.lexemes)
                    IN  [ chunk_id |-> c.id, document_id |-> c.document_id,
                          page_number |-> c.page_number,
                          vector_similarity |-> vector_sim, text_rank |-> text_rank,
                          importance |-> c.importance,
                          score |-> CombinedScore(a.vector_weight, vector_sim,
                                                  a.text_weight, text_rank),
                          document_info |-> DocumentInfo(store, c.document_id) ] ]
    IN  CASE Blank(a.query) -> ErrorEnvelope("Query must be a non-empty string", FALSE)
          [] EmbeddingError(e.embedding) # "" ->
                ErrorEnvelope(EmbeddingError(e.embedding), FALSE)
          [] ~tsquery.ok -> ErrorEnvelope("syntax error in tsquery", TRUE)
          [] ~e.db_ok -> ErrorEnvelope("database error", TRUE)
          [] OTHER -> Envelope("hybrid", Slice(SortDesc(rows), a.offset, a.limit),
                               Cardinality(store.chunks))

\* the document_info document_chat_search attaches to a returned row
ChatDocumentInfo(store, document_id) ==
    LET d == CHOOSE d \in DocumentOf(store, document_id) : TRUE
    IN  [title |-> d.title, author |-> d.author, document_type |-> d.document_type,
         topics |-> d.topics]

\* the structural score without the branch of the section depth
TableScore(table_query, on_table_page, content_type, section_path) ==
    CASE table_query /\ on_table_page -> 100
      [] content_type = "table" /\ table_query -> 100
      [] OTHER -> 0

\* structural_score of document_chat_search, in hundredths
StructuralScore(table_query, on_table_page, content_type, section_path) ==
    CASE table_query /\ on_table_page -> 100
      [] content_type = "table" /\ table_query -> 100
      [] section_path # <<>> ->
            IF (100 * Len(section_path)) \div SECTION_DEPTH < 100
            THEN (100 * Len(section_path)) \div SECTION_DEPTH ELSE 100
      [] OTHER -> 0

\* the combined score without the halving of the entity term
UnhalvedScore(base_score, importance_score, entity_score, relationship_score, structural_score, w) ==
    2 * base_score * (100 - w.importance - w.entity - w.structural - w.recency)
    + 2 * importance_score * w.importance
    + 2 * (entity_score + relationship_score) * w.entity
    + 2 * structural_score * w.structural

\* combined_score of document_chat_search, in 1/20000 (signals and weights in
\* hundredths, the whole doubled so that entity_weight / 2 stays an integer):
\* the value of the expression in exact arithmetic; FloatChatScore below is
\* what the floats of the program make of it
ChatScore(base_score, importance_score, entity_score, relationship_score, structural_score, w) ==
    2 * base_score * (100 - w.importance - w.entity - w.structural - w.recency)
    + 2 * importance_score * w.importance
    + (entity_score + relationship_score) * w.entity
    + 2 * structural_score * w.structural

\* the result row of one chunk in document_chat_search: its signals and its
\* combined score, in 1/20000
ChatRow(store, a, c) ==
    LET document_id == a.document_id.id
        query_words == {Lower(w) : w \in Range(Split(a.query))}
        entities == RowsInOrder({en \in store.entities : en.document_id = document_id})
        matched == SelectSeq(entities,
                             LAMBDA en : Lower(en.name) \in query_words
                                         \/ Lower(en.normalized_name) \in query_words)
        entity_matches == {matched[i].id : i \in DOMAIN matched}
        potential_entities == [ i \in DOMAIN matched |-> Lower(matched[i].name) ]
        relationship_chunk_ids ==
            UNION { Range(r.chunk_ids) :
                      r \in { r \in store.relationships :
                                /\ r.document_id = document_id
                                /\ \/ r.source_entity_id \in entity_matches
                                   \/ r.target_entity_id \in entity_matches } }
        table_query == query_words \cap TableWords # {}
        table_pages == IF table_query
                       THEN { p.page_number : p \in { p \in store.pages :
                                                       /\ p.document_id = document_id
                                                       /\ p.has_table } }
                       ELSE {}
        content_lower == {Lower(w) : w \in Range(c.content)}
        entity_mentions == Cardinality({ i \in DOMAIN potential_entities :
                                           potential_entities[i] \in content_lower })
        base_score == Similarity(a.query, c.embedding)
        entity_score == IF potential_entities = <<>> THEN 0
                        ELSE (100 * entity_mentions) \div Len(potential_entities)
        relationship_score == IF c.id \in relationship_chunk_ids THEN 100 ELSE 0
        structural_score == StructuralScore(table_query, c.page_number \in table_pages,
                                            c.content_type, c.section_path)
        w == a.weights
    IN  [ chunk_id |-> c.id, document_id |-> c.document_id, page_number |-> c.page_number,
          content_type |-> c.content_type,
          semantic_similarity |-> base_score,
          entity_relevance |-> entity_score,
          relationship_relevance |-> relationship_score,
          structural_relevance |-> structural_score,
          importance |-> c.importance,
          document_info |-> ChatDocumentInfo(store, document_id),
          score |-> ChatScore(base_score, c.importance, entity_score, relationship_score,
                              structural_score, w) ]

DocumentChatSearch(store, a, e) ==
    IF ~e.session_ok THEN Propagates("session")
    ELSE
    LET scope == { c \in store.chunks : c.document_id = a.document_id.id }
        rows == [ i \in DOMAIN RowsInOrder(scope) |-> ChatRow(store, a, RowsInOrder(scope)[i]) ]
    IN  CASE a.document_id.kind = "none" ->
                ErrorEnvelope("Document ID is required for document chat search", FALSE)
          [] a.document_id.kind = "malformed" ->
                ErrorEnvelope(ScopeError(a.document_id), FALSE)
          [] a.document_id.kind = "list" -> ErrorEnvelope(ScopeError(a.document_id), TRUE)
          [] ~e.db_ok -> ErrorEnvelope("database error", TRUE)
          [] DocumentOf(store, a.document_id.id) = {} ->
                ErrorEnvelope("Document not found", TRUE)
          [] EmbeddingError(e.embedding) # "" ->
                ErrorEnvelope(EmbeddingError(e.embedding), TRUE)
          [] OTHER ->
                Envelope("document_chat", Slice(SortDesc(rows), 0, a.limit), Len(rows))

\* the call of the search function a.fn names
Search(store, a, e) ==
    CASE a.fn = "fulltext" -> FulltextSearch(store, a, e)
      [] a.fn = "vector" -> VectorSearch(store, a, e)
      [] a.fn = "hybrid" -> HybridSearch(store, a, e)
      [] OTHER -> DocumentChatSearch(store, a, e)

(***************************************************************************)
(* SpecSearch applies one search function to a drawn store, drawn          *)
(* arguments and drawn collaborators.                                      *)
(***************************************************************************)
DocId(uid) == <<uid, "doc", 0>>

NoScope == [kind |-> "none", id |-> DocId(0)]

\* document_id: absent, the id of a document, a string that is no UUID, a list
DocumentScopes ==
    { NoScope,
      [kind |-> "uuid", id |-> DocId(1)],
      [kind |-> "uuid", id |-> DocId(9)],
      [kind |-> "malformed", id |-> DocId(0)],
      [kind |-> "list", id |-> DocId(1)] }

QueryTokens == {WS, "Alpha", "of", "table"}

DefaultWeights == [importance |-> 30, entity |-> 30, structural |-> 20, recency |-> 20]

SearchFunctions == {"fulltext", "vector", "hybrid", "document_chat"}

\* the arguments of a call with the defaults of the signatures
Call(fn, query, document_id) ==
    [ fn |-> fn, query |-> query, document_id |-> document_id,
      limit |-> IF fn = "document_chat" THEN CHAT_LIMIT ELSE SEARCH_LIMIT, offset |-> 0,
      vector_weight |-> 65, text_weight |-> 35, filters |-> <<>>,
      weights |-> DefaultWeights ]

Collaborators == [session_ok : BOOLEAN, embedding : EmbedderOutputs, db_ok : BOOLEAN]

\* the store after the uploads of the given documents, request i uploading pdfs[i]
RECURSIVE StoreOf(_)
StoreOf(pdfs) ==
    IF pdfs = <<>> THEN EmptyDb
    ELSE StoreData(StoreOf(SubSeq(pdfs, 1, Len(pdfs) - 1)),
                   Rows(IngestPdf(Len(pdfs), pdfs[Len(pdfs)], "none")), TRUE)

SampleStores ==
    { StoreOf(pdfs) : pdfs \in {<<>>} \cup { <<p>> : p \in SamplePdfs }
                                    \cup { <<p, q>> : p \in SamplePdfs, q \in SamplePdfs } }

InitSearch ==
    /\ \E fn \in SearchFunctions, query \in SeqsUpTo(QueryTokens, MaxQueryTokens),
          document_id \in DocumentScopes, e \in Collaborators :
         arg = [a |-> Call(fn, query, document_id), e |-> e]
    /\ ret = <<>>
    /\ files = {}
    /\ db \in SampleStores
    /\ up = <<>>
    /\ resp = <<>>

CallSearch ==
    /\ ret = <<>>
    /\ ret' = <<Search(db, arg.a, arg.e)>>
    /\ UNCHANGED <<arg, files, db, up, resp>>

SpecSearch == InitSearch /\ [][CallSearch]_vars

(***************************************************************************)
(* Spec: upload requests and search requests on one store, their steps     *)
(* interleaved.                                                            *)
(***************************************************************************)
SystemCalls ==
    { Call(fn, <<"Alpha">>, d) :
        fn \in {"fulltext", "document_chat"}, d \in {NoScope, [kind |-> "uuid", id |-> DocId(1)]} }

\* a search request: one call of a search function on the committed store
SearchRequest ==
    /\ \E a \in SystemCalls :
         resp' = <<Search(db, a, [session_ok |-> TRUE,
                                  embedding |-> [kind |-> "ndarray", shape |-> <<768>>],
                                  db_ok |-> TRUE])>>
    /\ UNCHANGED <<arg, ret, files, db, up>>

Init ==
    /\ arg = <<>>
    /\ ret = <<>>
    /\ files = {}
    /\ db = EmptyDb
    /\ up = [i \in Uploads |-> NewUpload]
    /\ resp = <<>>

Next ==
    \/ \E i \in Uploads : UploadSave(i)
    \/ \E i \in Uploads : UploadIngest(i)
    \/ \E i \in Uploads : UploadCheck(i)
    \/ \E i \in Uploads : UploadStore(i)
    \/ SearchRequest

Spec == Init /\ [][Next]_vars

(***************************************************************************)
(* Properties of extract_entities (SpecEntities)                           *)
(***************************************************************************)
\* the distinct (lowercased text, label) keys NER finds in a chunk
DistinctEntities(chunk) ==
    { <<Lower(Ents(chunk.content)[k].text), Ents(chunk.content)[k].label_>> :
        k \in DOMAIN Ents(chunk.content) }

RelationshipsOf(result, chunk) ==
    { k \in DOMAIN result.relationships : result.relationships[k].chunk_ids = <<chunk.id>> }

\* C1: for every text chunk in which NER finds n >= 2 distinct entities,
\* extract_entities creates exactly C(n,2) relationship records with chunk_ids =
\* [that chunk], each of type co-occurrence with confidence 0.5, also when an
\* entity is mentioned more than once.
C1_PairsPerChunk ==
    ret # <<>> =>
        \A i \in DOMAIN arg :
            LET n == Cardinality(DistinctEntities(arg[i]))
                rels == RelationshipsOf(ret[1], arg[i])
            IN  (arg[i].content_type = "text" /\ n >= 2) =>
                    /\ 2 * Cardinality(rels) = n * (n - 1)
                    /\ \A k \in rels :
                          /\ ret[1].relationships[k].type = "co-occurrence"
                          /\ ret[1].relationships[k].confidence = CO_OCCURRENCE_CONFIDENCE

\* C2: when extract_entities returns at least one entity, some returned entity
\* has importance exactly 1.0 and every returned importance lies in [0,1]; no
\* quotient is taken over zero, with or without entities.
C2_ImportanceNormalised ==
    ret # <<>> =>
        LET entities == ret[1].entities
        IN  /\ \A i \in DOMAIN entities :
                  /\ entities[i].importance.den > 0
                  /\ 0 <= entities[i].importance.num
                  /\ entities[i].importance.num <= entities[i].importance.den
            /\ entities # <<>> =>
                  \E i \in DOMAIN entities :
                      entities[i].importance.num = entities[i].importance.den

\* entities of unequal mention counts were returned, the less mentioned one first
C2_Witness ==
    /\ ret # <<>>
    /\ \E i, j \in DOMAIN ret[1].entities :
          /\ i < j
          /\ ret[1].entities[i].importance.num < ret[1].entities[i].importance.den
          /\ ret[1].entities[j].importance.num = ret[1].entities[j].importance.den

(***************************************************************************)
(* Properties of ingest_pdf (SpecIngest)                                   *)
(***************************************************************************)
\* C3 as stated: every chunk ingest_pdf emits has token_count <= CHUNK_SIZE.
C3_TokenBudget ==
    ret # <<>> =>
        \A i \in DOMAIN ret[1].chunks : ret[1].chunks[i].token_count <= CHUNK_SIZE

\* C3 amended: every chunk has token_count <= CHUNK_SIZE unless it consists of
\* one word whose own token count exceeds CHUNK_SIZE; and a chunk is closed only
\* by a word that does not fit: the first word of the next chunk of the page
\* would have taken the closed chunk over CHUNK_SIZE.
C3_TokenBudgetButOversizeWord ==
    ret # <<>> =>
        LET chunks == ret[1].chunks
        IN  /\ \A i \in DOMAIN chunks :
                  \/ chunks[i].token_count <= CHUNK_SIZE
                  \/ /\ Len(chunks[i].content) = 1
                     /\ TokenCount(chunks[i].content[1]) > CHUNK_SIZE
            /\ \A i \in DOMAIN chunks :
                  (i + 1 \in DOMAIN chunks /\ chunks[i + 1].page_number = chunks[i].page_number) =>
                      chunks[i].token_count + TokenCount(chunks[i + 1].content[1]) > CHUNK_SIZE

\* a page was cut into two chunks, one of them a single word over the budget
C3_Witness ==
    /\ ret # <<>>
    /\ \E i \in DOMAIN ret[1].chunks :
          /\ ret[1].chunks[i].token_count > CHUNK_SIZE
          /\ i + 1 \in DOMAIN ret[1].chunks
          /\ ret[1].chunks[i + 1].page_number = ret[1].chunks[i].page_number

\* whether text extraction yields words for the page
HasText(page) == Split(page.text) # <<>>

IsFallback(chunk) == chunk.content = FallbackContent

\* C4: every page that yields no text gets exactly one chunk, the fallback chunk
\* with content_type text and importance 0.5; a page that yields text gets no
\* fallback chunk.
C4_FallbackPerEmptyPage ==
    ret # <<>> =>
        \A n \in DOMAIN arg.pdf.pages :
            LET of_page == { i \in DOMAIN ret[1].chunks : ret[1].chunks[i].page_number = n }
            IN  IF HasText(arg.pdf.pages[n])
                THEN \A i \in of_page : ~IsFallback(ret[1].chunks[i])
                ELSE /\ Cardinality(of_page) = 1
                     /\ \A i \in of_page :
                           /\ IsFallback(ret[1].chunks[i])
                           /\ ret[1].chunks[i].content_type = "text"
                           /\ ret[1].chunks[i].importance = FALLBACK_IMPORTANCE

(***************************************************************************)
(* Properties of the uploads (Spec)                                        *)
(***************************************************************************)
\* the rows upload i built from what ingest_pdf returned
UploadRows(i) == Rows(up[i].result[1])

AllStored(rows) == \A t \in Tables : rows[t] \subseteq db[t]

NoneStored(rows) == \A t \in Tables : rows[t] \cap db[t] = {}

\* C5: at every point of every interleaving of uploads and searches the store
\* holds a document together with all its pages, chunks, entities and
\* relationships or none of them; they are there exactly when the upload
\* succeeded, and an upload whose store_data raised left none.
C5_NoPartialDocument ==
    \A i \in Uploads :
        up[i].result # <<>> =>
            /\ AllStored(UploadRows(i)) \/ NoneStored(UploadRows(i))
            /\ AllStored(UploadRows(i)) <=> up[i].outcome = "success"

\* a search found chunks of a stored document after store_data of another
\* upload had raised
C5_Witness ==
    /\ resp # <<>>
    /\ resp[1].results # <<>>
    /\ \E i, j \in Uploads :
          /\ up[i].result # <<>> /\ up[i].outcome = "http_500"
          /\ up[j].outcome = "success"

\* C6: when embedder.encode raises during the ingestion of an upload, the upload
\* does not report success and no document, page or chunk of it is stored.
C6_EmbeddingFailureFatal ==
    \A i \in Uploads :
        up[i].raised = "embed" =>
            /\ up[i].outcome # "success"
            /\ \A t \in {"documents", "pages", "chunks"} : UploadRows(i)[t] \cap db[t] = {}

\* C7: when extract_entities raises during the ingestion of an upload, the
\* upload fails and neither a document nor entities or relationships of it are
\* stored.
C7_ExtractionFailureFatal ==
    \A i \in Uploads :
        up[i].raised = "ner" =>
            /\ up[i].outcome \notin {"success", "exists"}
            /\ \A t \in {"documents", "entities", "relationships"} :
                  UploadRows(i)[t] \cap db[t] = {}

(***************************************************************************)
(* Properties of the search functions (SpecSearch)                         *)
(***************************************************************************)
IsErrorEnvelope(result) ==
    result.returned /\ result.results = <<>> /\ result.total = 0 /\ result.error # ""

\* C8: fulltext_search, vector_search and hybrid_search return the error
\* envelope on every internal failure (no session, the embedder raising, the
\* store failing a statement) and never let an exception out.
C8_AlwaysEnvelope ==
    (ret # <<>> /\ arg.a.fn \in {"fulltext", "vector", "hybrid"}) =>
        /\ ret[1].returned
        /\ ( \/ ~arg.e.session_ok
             \/ ~arg.e.db_ok
             \/ arg.a.fn # "fulltext" /\ arg.e.embedding.kind = "raises" ) =>
              IsErrorEnvelope(ret[1])

\* the embedder was called and what it gave is, flattened or unwrapped, no list
\* of EMBEDDING_DIM elements
BadEmbedding ==
    /\ arg.e.session_ok
    /\ ~Blank(arg.a.query)
    /\ arg.e.embedding.kind # "raises"
    /\ ~( /\ FlatEmbedding(arg.e.embedding).is_list
          /\ FlatEmbedding(arg.e.embedding).length = EMBEDDING_DIM )

\* C9: in vector_search and hybrid_search a query embedding that is, after
\* flattening or unwrapping, not a flat list of exactly 768 elements gives the
\* error envelope, with no statement sent to the store and no exception.
C9_InvalidEmbeddingRejected ==
    (ret # <<>> /\ arg.a.fn \in {"vector", "hybrid"} /\ BadEmbedding) =>
        /\ IsErrorEnvelope(ret[1])
        /\ ~ret[1].queried

\* hybrid_search on a store with chunks got a list of 769 numbers from the
\* embedder and returned the error envelope
C9_Witness ==
    /\ ret # <<>>
    /\ arg.a.fn = "hybrid"
    /\ BadEmbedding
    /\ arg.e.embedding = [kind |-> "list", shape |-> <<769>>]
    /\ arg.e.db_ok
    /\ db.chunks # {}
    /\ IsErrorEnvelope(ret[1])

\* C10: in each of the four search functions a query that is empty after
\* trimming ends in an error, never in a success envelope.
C10_BlankQueryRejected ==
    (ret # <<>> /\ Blank(arg.a.query)) => ret[1].error # ""

(***************************************************************************)
(* The /search dispatcher (api.py search_documents) and the kinds of       *)
(* outcome a caller can tell apart                                         *)
(***************************************************************************)
\* what the caller of a search function gets: a dict without an error key, a
\* dict with one, or an exception
OutcomeKind(result) ==
    CASE ~result.returned -> "exception"
      [] result.error # "" -> "error_envelope"
      [] OTHER -> "success"

\* the HTTP status of search_documents for the search type fn and what the
\* search function did: the HTTPException raised inside the try (invalid search
\* type, "error" in result) is caught by "except Exception" and raised again
\* with status 500; only a ValueError leaving the function would give 400
SearchDocumentsStatus(fn, result) ==
    CASE fn \notin {"fulltext", "vector", "hybrid"} -> 500
      [] ~result.returned -> IF result.error = "ValueError" THEN 400 ELSE 500
      [] result.error # "" -> 500
      [] OTHER -> 200

\* the call fails validation: a blank query where the function checks it, no
\* document scope for document_chat_search, or an embedding that is no flat
\* list of EMBEDDING_DIM elements
FailsValidation(a, e) ==
    /\ e.session_ok
    /\ \/ a.fn \in {"vector", "hybrid"} /\ Blank(a.query)
       \/ a.fn = "document_chat" /\ a.document_id.kind = "none"
       \/ /\ a.fn \in {"vector", "hybrid"}
          /\ ~Blank(a.query)
          /\ e.embedding.kind \notin {"raises"}
          /\ ~ValidEmbedding(FlatEmbedding(e.embedding))

\* calls that pass validation and fail in the store
BackendFailures ==
    { [ a |-> Call(fn, <<"Alpha">>, IF fn = "document_chat"
                                    THEN [kind |-> "uuid", id |-> DocId(1)] ELSE NoScope),
        e |-> [session_ok |-> TRUE, embedding |-> [kind |-> "ndarray", shape |-> <<768>>],
               db_ok |-> FALSE] ] : fn \in SearchFunctions }

\* C11: a request that fails validation and a request that fails in the backend
\* never end in the same kind of error outcome, neither for the caller of the
\* search function nor for the caller of /search.
C11_ValidationDistinctFromBackend ==
    (ret # <<>> /\ FailsValidation(arg.a, arg.e)) =>
        \A b \in BackendFailures :
            /\ OutcomeKind(ret[1]) # OutcomeKind(Search(EmptyDb, b.a, b.e))
            /\ (arg.a.fn # "document_chat" /\ b.a.fn # "document_chat") =>
                  SearchDocumentsStatus(arg.a.fn, ret[1])
                      # SearchDocumentsStatus(b.a.fn, Search(EmptyDb, b.a, b.e))

(***************************************************************************)
(* SpecQuery applies one search function, its collaborators working, to a  *)
(* drawn store with drawn scope, filters, page and weights.                *)
(***************************************************************************)
\* the keyword filters passed to a call
FilterSets ==
    { <<>>,
      [author |-> "know"],
      [author |-> "Alpha"],
      [creation_date_start |-> NOW],
      [creation_date_end |-> PDF_DATE],
      [document_type |-> "pdf"],
      [language |-> "fr"],
      [topics |-> <<"PER", "ORG">>],
      [min_page |-> 2],
      [max_page |-> 1],
      [min_page |-> 2, document_type |-> "pdf"] }

\* limit and offset
PageWindows == { [limit |-> l, offset |-> o] : l \in 1..MaxLimit, o \in 0..1 }

\* (vector_weight, text_weight) of hybrid_search, in hundredths
HybridWeights == { <<65, 35>>, <<100, 0>>, <<0, 100>> }

\* the weights of document_chat_search, in hundredths
ChatWeights ==
    { DefaultWeights,
      [importance |-> 0, entity |-> 0, structural |-> 0, recency |-> 0],
      [importance |-> 0, entity |-> 0, structural |-> 0, recency |-> 50],
      [importance |-> 10, entity |-> 50, structural |-> 40, recency |-> 0] }

\* the queries of SpecQuery: words of the documents and of table questions, and
\* one query close to the text embedded for a fallback chunk
QuerySamples ==
    (SeqsUpTo({"Alpha", "table"}, MaxQueryTokens) \ {<<>>}) \cup {<<"No", "text", "Beta">>}

Working == [session_ok |-> TRUE, embedding |-> [kind |-> "ndarray", shape |-> <<768>>],
            db_ok |-> TRUE]

InitQuery ==
    /\ \E fn \in SearchFunctions, query \in QuerySamples,
          document_id \in {NoScope, [kind |-> "uuid", id |-> DocId(1)],
                           [kind |-> "uuid", id |-> DocId(2)]},
          filters \in FilterSets, window \in PageWindows :
         \E hw \in IF fn = "hybrid" THEN HybridWeights ELSE {<<65, 35>>},
            cw \in IF fn = "document_chat" THEN ChatWeights ELSE {DefaultWeights} :
            arg = [ a |-> [ Call(fn, query, document_id) EXCEPT
                              !.limit = window.limit,
                              !.offset = IF fn = "document_chat" THEN 0 ELSE window.offset,
                              !.filters = IF fn = "document_chat" THEN <<>> ELSE filters,
                              !.vector_weight = hw[1], !.text_weight = hw[2],
                              !.weights = cw ],
                    e |-> Working ]
    /\ ret = <<>>
    /\ files = {}
    /\ db \in SampleStores
    /\ up = <<>>
    /\ resp = <<>>

SpecQuery == InitQuery /\ [][CallSearch]_vars

\* the stored chunk a result row reports
ChunkOf(row) == CHOOSE c \in db.chunks : c.id = row.chunk_id

Succeeded == ret # <<>> /\ ret[1].returned /\ ret[1].error = ""

\* C12: in fulltext_search, vector_search and hybrid_search every returned chunk
\* belongs to the scoped document and passes every filter supplied, and total
\* counts only such chunks.
C12_ScopeAndFiltersApplied ==
    (Succeeded /\ arg.a.fn \in {"fulltext", "vector", "hybrid"}) =>
        /\ \A i \in DOMAIN ret[1].results :
              /\ arg.a.document_id.kind = "uuid" =>
                    ret[1].results[i].document_id = arg.a.document_id.id
              /\ ApplyFilters(db, ChunkOf(ret[1].results[i]), arg.a.filters)
        /\ ret[1].total <= Cardinality(InScope(db, arg.a))

(***************************************************************************)
(* delete_document (api.py 245-268) and SpecDelete: uploads and deletions  *)
(* on one store.  ret holds the last deletion: the id, the HTTP status and *)
(* the committed store before and after it.                                *)
(***************************************************************************)
\* the rows of a table that reference the document; the foreign keys of db.py
\* carry no ON DELETE rule
Referencing(store, t, document_id) == { r \in store[t] : r.document_id = document_id }

\* delete_document(document_id) in one transaction: the chunks and pages of the
\* document are deleted, then the document row.  The HTTPException(404) of a
\* missing document is caught by "except Exception"; the DELETE of a document
\* row that entities or relationships still reference violates their foreign
\* key; either way the transaction is rolled back and the status is 500.
DeleteDocument(store, document_id, commit_ok) ==
    IF \/ DocumentOf(store, document_id) = {}
       \/ Referencing(store, "entities", document_id) # {}
       \/ Referencing(store, "relationships", document_id) # {}
       \/ ~commit_ok
    THEN [store |-> store, status |-> 500]
    ELSE [store |-> [store EXCEPT
                       !.chunks = @ \ Referencing(store, "chunks", document_id),
                       !.pages = @ \ Referencing(store, "pages", document_id),
                       !.documents = @ \ DocumentOf(store, document_id)],
          status |-> 200]

\* the ids a deletion is asked for: those ingest_pdf gave out, and one of no document
DeletableIds == { <<i, "doc", k>> : i \in Uploads, k \in {0, 1} } \cup {DocId(MaxUploads + 1)}

DeleteRequest ==
    /\ \E document_id \in DeletableIds, commit_ok \in BOOLEAN :
         LET deleted == DeleteDocument(db, document_id, commit_ok)
         IN  /\ db' = deleted.store
             /\ ret' = <<[document_id |-> document_id, status |-> deleted.status,
                          before |-> db, after |-> deleted.store]>>
    /\ UNCHANGED <<arg, files, up, resp>>

NextDelete ==
    \/ \E i \in Uploads : UploadSave(i)
    \/ \E i \in Uploads : UploadIngest(i)
    \/ \E i \in Uploads : UploadCheck(i)
    \/ \E i \in Uploads : UploadStore(i)
    \/ DeleteRequest

SpecDelete == Init /\ [][NextDelete]_vars

\* C13: after delete_document of an existing document the document and every
\* page, chunk, entity and relationship of it are gone from the store, and the
\* rows of other documents are unchanged.
C13_DeleteCascades ==
    (ret # <<>> /\ DocumentOf(ret[1].before, ret[1].document_id) # {}) =>
        /\ DocumentOf(ret[1].after, ret[1].document_id) = {}
        /\ \A t \in {"pages", "chunks", "entities", "relationships"} :
              /\ Referencing(ret[1].after, t, ret[1].document_id) = {}
              /\ ret[1].after[t] \ Referencing(ret[1].before, t, ret[1].document_id)
                    = ret[1].before[t] \ Referencing(ret[1].before, t, ret[1].document_id)
        /\ ret[1].after.documents \ DocumentOf(ret[1].before, ret[1].document_id)
              = ret[1].before.documents \ DocumentOf(ret[1].before, ret[1].document_id)

(***************************************************************************)
(* Properties of the scores and the ranking (SpecQuery)                    *)
(***************************************************************************)
\* the lexemes of the OR-expression a call builds from its query
QueryLexemes == ToTsQuery(SearchTerms(arg.a.query)).lexemes

\* C14: every row hybrid_search returns has score = vector_weight *
\* vector_similarity + text_weight * text_rank, with text_rank 0 for a chunk that
\* does not match the OR-expression; with weights (1, 0) the score is the vector
\* similarity and with (0, 1) it is the text rank.
C14_HybridScore ==
    (Succeeded /\ arg.a.fn = "hybrid") =>
        \A i \in DOMAIN ret[1].results :
            LET r == ret[1].results[i]
            IN  /\ r.score = arg.a.vector_weight * r.vector_similarity
                             + arg.a.text_weight * r.text_rank
                /\ ~TsMatch(ChunkOf(r).content, QueryLexemes) => r.text_rank = 0
                /\ <<arg.a.vector_weight, arg.a.text_weight>> = <<100, 0>>
                      => r.score = 100 * r.vector_similarity
                /\ <<arg.a.vector_weight, arg.a.text_weight>> = <<0, 100>>
                      => r.score = 100 * r.text_rank

\* hybrid_search with weights (0, 1) returned a matching chunk with a positive
\* similarity and a chunk that does not match
C14_Witness ==
    /\ Succeeded
    /\ arg.a.fn = "hybrid"
    /\ <<arg.a.vector_weight, arg.a.text_weight>> = <<0, 100>>
    /\ \E i, j \in DOMAIN ret[1].results :
          /\ ret[1].results[i].text_rank > 0
          /\ ret[1].results[i].vector_similarity > 0
          /\ ret[1].results[j].text_rank = 0

(***************************************************************************)
(* The match expression of fulltext_search (SpecSearch)                    *)
(***************************************************************************)
\* the whitespace-separated terms of a query that are longer than 2 characters
LongTerms(query) == SelectSeq(Split(query), LAMBDA t : Len(t) > 2)

\* C15: the match expression of fulltext_search is the OR-combination, in query
\* order, of exactly the query terms longer than 2 characters; when every term
\* has length <= 2 it is the raw query verbatim; it is never an empty expression.
C15_MatchExpression ==
    (ret # <<>> /\ arg.a.fn = "fulltext" /\ arg.e.session_ok) =>
        LET expr == SearchTerms(arg.a.query)
            terms == LongTerms(arg.a.query)
        IN  /\ terms # <<>> =>
                  /\ Len(expr) = 2 * Len(terms) - 1
                  /\ \A k \in DOMAIN terms : expr[2 * k - 1] = terms[k]
                  /\ \A k \in 1..(Len(terms) - 1) : expr[2 * k] = "|"
            /\ terms = <<>> => expr = arg.a.query
            /\ Split(expr) # <<>>

\* the greater and the smaller of two numbers
Max(x, y) == IF x > y THEN x ELSE y
Min(x, y) == IF x < y THEN x ELSE y

\* C16: every row vector_search returns has score = similarity * importance with
\* similarity = 1 - cosine distance of query and chunk embedding, and the rows
\* returned are the slice [offset, offset + limit) of the in-scope chunks in
\* descending order of that score.
C16_VectorRanking ==
    (Succeeded /\ arg.a.fn = "vector") =>
        LET scope == InScope(db, arg.a)
            Score(c) == Similarity(arg.a.query, c.embedding) * c.importance
            results == ret[1].results
        IN  /\ Len(results) = Max(0, Min(arg.a.limit, Cardinality(scope) - arg.a.offset))
            /\ \A i, j \in DOMAIN results : i # j => results[i].chunk_id # results[j].chunk_id
            /\ \A i \in DOMAIN results :
                  LET r == results[i]
                  IN  /\ ChunkOf(r) \in scope
                      /\ r.similarity = Similarity(arg.a.query, ChunkOf(r).embedding)
                      /\ r.importance = ChunkOf(r).importance
                      /\ r.score = r.similarity * r.importance
                      /\ Cardinality({c \in scope : Score(c) > r.score}) <= arg.a.offset + i - 1
                      /\ Cardinality({c \in scope : Score(c) >= r.score}) >= arg.a.offset + i

\* vector_search returned a chunk of smaller similarity before one of greater
\* similarity and smaller importance
C16_Witness ==
    /\ Succeeded
    /\ arg.a.fn = "vector"
    /\ \E i, j \in DOMAIN ret[1].results :
          /\ i < j
          /\ ret[1].results[i].similarity < ret[1].results[j].similarity
          /\ ret[1].results[i].score > ret[1].results[j].score

(***************************************************************************)
(* Properties of document_chat_search (SpecQuery)                          *)
(***************************************************************************)
\* every candidate chunk of the call with its signals and score: the call
\* repeated with a limit that cuts nothing off
Candidates ==
    DocumentChatSearch(db, [arg.a EXCEPT !.limit = Cardinality(db.chunks)], arg.e).results

C18_ChatResults ==
    (Succeeded /\ arg.a.fn = "document_chat") =>
        LET results == ret[1].results
            scope == { c \in db.chunks : c.document_id = arg.a.document_id.id }
            returned == { results[i].chunk_id : i \in DOMAIN results }
            document == CHOOSE d \in db.documents : d.id = arg.a.document_id.id
        IN  /\ \A i, j \in DOMAIN results : i < j => results[i].score >= results[j].score
            /\ Len(results) = Min(arg.a.limit, Cardinality(scope))
            /\ Cardinality(returned) = Len(results)
            /\ returned \subseteq { c.id : c \in scope }
            /\ \A i \in DOMAIN results, k \in DOMAIN Candidates :
                  Candidates[k].chunk_id \notin returned => Candidates[k].score <= results[i].score
            /\ \A i \in DOMAIN results :
                  /\ results[i].document_info.title = document.title
                  /\ results[i].document_info.author = document.author
                  /\ results[i].document_info.topics = document.topics

\* document_chat_search cut candidates off and returned chunks of different
\* scores, the store holding a lower scored chunk first
C18_Witness ==
    /\ Succeeded
    /\ arg.a.fn = "document_chat"
    /\ Len(ret[1].results) = 2
    /\ ret[1].total > 2
    /\ ret[1].results[1].score > ret[1].results[2].score
    /\ ret[1].results[1].chunk_id[3] > ret[1].results[2].chunk_id[3]
    /\ ret[1].results[1].document_info.topics # <<>>

\* the query holds table-indicative vocabulary
TableQuery == \E w \in Range(Split(arg.a.query)) : Lower(w) \in TableWords

\* the chunk of the row lies on a page flagged has_table, or is a table chunk
OnTablePage(row) ==
    \/ \E p \in db.pages : /\ p.document_id = row.document_id
                           /\ p.page_number = row.page_number
                           /\ p.has_table
    \/ row.content_type = "table"

\* C19 as stated: with a table query every chunk on a has_table page (or of
\* content_type table) has structural_relevance 1.0, and every chunk on a page
\* without a table and without deep section nesting, a chunk made by ingest_pdf
\* included, has structural_relevance 0.
C19_StructuralZero ==
    (Succeeded /\ arg.a.fn = "document_chat" /\ TableQuery) =>
        \A i \in DOMAIN Candidates :
            IF OnTablePage(Candidates[i])
            THEN Candidates[i].structural_relevance = 100
            ELSE Len(ChunkOf(Candidates[i]).section_path) <= 1
                    => Candidates[i].structural_relevance = 0

\* C19 amended: with a table query every chunk on a has_table page (or of
\* content_type table) has structural_relevance 1.0; every other chunk has
\* min(1, len(section_path) / 5), which is 0.2 for a chunk made by ingest_pdf
\* (section_path ["Page N"]) and 0 only for an empty section path.
C19_StructuralDepth ==
    (Succeeded /\ arg.a.fn = "document_chat" /\ TableQuery) =>
        \A i \in DOMAIN Candidates :
            LET depth == Len(ChunkOf(Candidates[i]).section_path)
            IN  IF OnTablePage(Candidates[i])
                THEN Candidates[i].structural_relevance = 100
                ELSE /\ Candidates[i].structural_relevance
                            = Min(100, (100 * depth) \div SECTION_DEPTH)
                     /\ depth = 1 => Candidates[i].structural_relevance = 20
                     /\ depth = 0 => Candidates[i].structural_relevance = 0

\* a table query scored a chunk on a has_table page and a chunk on a page
\* without a table
C19_Witness ==
    /\ Succeeded
    /\ arg.a.fn = "document_chat"
    /\ TableQuery
    /\ \E i, j \in DOMAIN Candidates :
          /\ OnTablePage(Candidates[i]) /\ Candidates[i].structural_relevance = 100
          /\ ~OnTablePage(Candidates[j]) /\ Candidates[j].structural_relevance = 20

(***************************************************************************)
(* SpecChat posts one request to /query in document mode over a drawn      *)
(* store: ret holds what document_chat_search returned when the dispatcher *)
(* called it, resp the HTTP status of the request.                         *)
(***************************************************************************)
\* data.get("document_id"): absent, one id, or a list of ids
QueryDocumentIds ==
    { [kind |-> "none", ids |-> <<>>] }
        \cup { [kind |-> "uuid", ids |-> <<DocId(n)>>] : n \in {1, 2, 9} }
        \cup { [kind |-> "list", ids |-> ids] :
                  ids \in {<<>>, <<DocId(1)>>, <<DocId(2)>>, <<DocId(1), DocId(2)>>} }

\* document_ids = document_id if it is a list, else [document_id]: the value
\* handed to document_chat_search is a list in both cases
DocumentIds(document_id) ==
    [ kind |-> "list", id |-> document_id.ids[1], ids |-> document_id.ids ]

\* query_document with chat_mode "document": the result of the call of
\* document_chat_search (<<>> when a check raises before it) and the status
QueryDocument(store, data, e) ==
    LET search_results == DocumentChatSearch(store,
                              Call("document_chat", data.query, DocumentIds(data.document_id)), e)
    IN  CASE data.query = <<>> -> [search |-> <<>>, status |-> 500]
          [] data.document_id.ids = <<>> -> [search |-> <<>>, status |-> 500]
          [] ~search_results.returned -> [search |-> <<>>, status |-> 500]
          [] search_results.error # "" -> [search |-> <<search_results>>, status |-> 500]
          [] ~e.llm_ok -> [search |-> <<search_results>>, status |-> 500]
          [] OTHER -> [search |-> <<search_results>>, status |-> 200]

InitChat ==
    /\ \E query \in SeqsUpTo({"Alpha", "table"}, MaxQueryTokens),
          document_id \in QueryDocumentIds, llm_ok \in BOOLEAN :
         arg = [ data |-> [query |-> query, document_id |-> document_id,
                           chat_mode |-> "document"],
                 e |-> [ session_ok |-> Working.session_ok, embedding |-> Working.embedding,
                         db_ok |-> Working.db_ok, llm_ok |-> llm_ok ] ]
    /\ ret = <<>>
    /\ files = {}
    /\ db \in SampleStores
    /\ up = <<>>
    /\ resp = <<>>

PostQuery ==
    /\ resp = <<>>
    /\ ret' = QueryDocument(db, arg.data, arg.e).search
    /\ resp' = <<QueryDocument(db, arg.data, arg.e).status>>
    /\ UNCHANGED <<arg, files, db, up>>

SpecChat == InitChat /\ [][PostQuery]_vars

\* the request names one document or a non-empty list of documents, all stored
NamesStoredDocuments ==
    /\ arg.data.query # <<>>
    /\ arg.data.document_id.ids # <<>>
    /\ \A i \in DOMAIN arg.data.document_id.ids :
          DocumentOf(db, arg.data.document_id.ids[i]) # {}

\* C20: when /query in document mode is given a single document id or a
\* non-empty list of ids of existing documents, document_chat_search returns
\* a success envelope whose candidate chunks are exactly the chunks of the
\* listed documents.
C20_ChatScope ==
    (resp # <<>> /\ NamesStoredDocuments) =>
        /\ ret # <<>>
        /\ ret[1].returned /\ ret[1].error = ""
        /\ { ret[1].results[i].chunk_id : i \in DOMAIN ret[1].results }
             = { c.id : c \in { x \in db.chunks :
                        \E i \in DOMAIN arg.data.document_id.ids :
                            x.document_id = arg.data.document_id.ids[i] } }

(***************************************************************************)
(* Invariants of the records ingest_pdf returns                            *)
(***************************************************************************)
\* C21: for every document ingested by ingest_pdf, the chunk_index values of
\* its chunks in creation order are exactly 0, 1, ..., k-1: no gap and no
\* duplicate, whatever the mix of pages with text, pages split into several
\* chunks and pages without text.
C21_ChunkIndexContiguous ==
    ret # <<>> =>
        \A i \in DOMAIN ret[1].chunks : ret[1].chunks[i].chunk_index = i - 1

\* a document whose first page was split into two chunks and whose second page
\* got the fallback chunk
C21_Witness ==
    /\ ret # <<>>
    /\ arg.fail = "none"
    /\ Len(ret[1].chunks) = 3
    /\ ret[1].chunks[2].page_number = 1
    /\ ret[1].chunks[3].page_number = 2
    /\ IsFallback(ret[1].chunks[3])
    /\ ret[1].chunks[3].chunk_index = 2

\* no collaborator of ingest_pdf raised: the run took the path that ends at
\* "return metadata, chunks, pages, entities, relationships" inside the try
RanToEnd == ret # <<>> /\ ~Raises(arg.pdf, arg.fail)

\* C22: after a successful run of ingest_pdf there is exactly one page record
\* per physical page, numbered 1..page_count, and every page number has at
\* least one chunk with that page_number, pages of whitespace included.
C22_PagePerPhysicalPage ==
    RanToEnd =>
        /\ ret[1].metadata.page_count = Len(arg.pdf.pages)
        /\ Len(ret[1].pages) = ret[1].metadata.page_count
        /\ \A n \in DOMAIN ret[1].pages :
              /\ ret[1].pages[n].page_number = n
              /\ \E i \in DOMAIN ret[1].chunks : ret[1].chunks[i].page_number = n

\* a run over two pages, the second of which holds whitespace only
C22_Witness ==
    /\ RanToEnd
    /\ Len(arg.pdf.pages) = 2
    /\ HasText(arg.pdf.pages[1])
    /\ arg.pdf.pages[2].text = <<WS>>
    /\ Len(ret[1].pages) = 2
    /\ \E i \in DOMAIN ret[1].chunks :
          ret[1].chunks[i].page_number = 2 /\ IsFallback(ret[1].chunks[i])

(***************************************************************************)
(* Invariants of extract_entities over a whole chunk list                  *)
(***************************************************************************)
\* the relationship records that join the entities with ids e1 and e2
Joining(result, e1, e2) ==
    { k \in DOMAIN result.relationships :
        {result.relationships[k].source_entity_id, result.relationships[k].target_entity_id}
            = {e1, e2} }

\* the text chunks of the list in which both entities are mentioned
CoOccurrences(chunks, x, y) ==
    { i \in DOMAIN chunks :
        /\ chunks[i].content_type = "text"
        /\ <<x.normalized_name, x.type>> \in DistinctEntities(chunks[i])
        /\ <<y.normalized_name, y.type>> \in DistinctEntities(chunks[i]) }

\* C23: over a whole document extract_entities creates exactly one relationship
\* record per (unordered entity pair, chunk) in which both occur: for every pair
\* of distinct entities the number of records joining them equals the number of
\* text chunks mentioning both, and each record's chunk_ids is one chunk.
C23_OneRecordPerPairPerChunk ==
    ret # <<>> =>
        /\ \A i, j \in DOMAIN ret[1].entities :
              i < j =>
                 Cardinality(Joining(ret[1], ret[1].entities[i].id, ret[1].entities[j].id))
                    = Cardinality(CoOccurrences(arg, ret[1].entities[i], ret[1].entities[j]))
        /\ \A k \in DOMAIN ret[1].relationships :
              /\ Len(ret[1].relationships[k].chunk_ids) = 1
              /\ \E i \in DOMAIN arg : ret[1].relationships[k].chunk_ids = <<arg[i].id>>

\* C24: the fallback chunk of a page without text carries the embedding of its
\* own placeholder content, embedding = embedder(chunk.content), and an
\* all-zero embedding appears in the output of ingest_pdf only on the path of
\* total pipeline failure.
C24_FallbackEmbedsItsContent ==
    ret # <<>> =>
        \A i \in DOMAIN ret[1].chunks :
            /\ IsFallback(ret[1].chunks[i]) =>
                  ret[1].chunks[i].embedding = Encode(ret[1].chunks[i].content)
            /\ ret[1].chunks[i].embedding = ZeroVector => Raises(arg.pdf, arg.fail)

(***************************************************************************)
(* Store followed by read                                                  *)
(***************************************************************************)
\* a read that does not filter by document
ReadAll(store, document_id) ==
    [ document |-> store.documents, chunks |-> store.chunks, pages |-> store.pages ]

\* the three queries by document id: Document.id == id,
\* DocumentChunk.document_id == id, DocumentPage.document_id == id
ReadDocument(store, document_id) ==
    [ document |-> { d \in store.documents : d.id = document_id },
      chunks |-> { c \in store.chunks : c.document_id = document_id },
      pages |-> { p \in store.pages : p.document_id = document_id } ]

Mentions(chunks) ==
    { <<i, k>> \in (DOMAIN chunks) \X (1..MaxListWords) :
        chunks[i].content_type = "text" /\ k \in DOMAIN Ents(chunks[i].content) }

\* the occurrence record of mention k of chunk i
OccurrenceOf(chunks, i, k) ==
    [ chunk_id |-> chunks[i].id,
      start |-> Ents(chunks[i].content)[k].start_char,
      end |-> Ents(chunks[i].content)[k].end_char ]

\* C26: within one document extract_entities never returns two entities with
\* the same (normalized_name, type) key; every NER mention found in a chunk of
\* content_type "text" is exactly one occurrence {chunk_id, start, end} of the
\* entity with that key, so the occurrence lists together are as long as the
\* number of mentions; chunks of other content types contribute no mention.
C26_OneEntityPerKey ==
    ret # <<>> =>
        LET entities == ret[1].entities
        IN  /\ \A i, j \in DOMAIN entities :
                  (/\ entities[i].normalized_name = entities[j].normalized_name
                   /\ entities[i].type = entities[j].type) => i = j
            /\ \A m \in Mentions(arg) :
                  LET ent == Ents(arg[m[1]].content)[m[2]]
                      holders == { <<e, o>> \in (DOMAIN entities) \X (1..MaxListWords) :
                                     /\ o \in DOMAIN entities[e].occurrences
                                     /\ entities[e].occurrences[o]
                                          = OccurrenceOf(arg, m[1], m[2]) }
                  IN  /\ Cardinality(holders) = 1
                      /\ \A h \in holders :
                            /\ entities[h[1]].normalized_name = Lower(ent.text)
                            /\ entities[h[1]].type = ent.label_
            /\ SumSeq([e \in DOMAIN entities |-> Len(entities[e].occurrences)])
                  = Cardinality(Mentions(arg))
            /\ \A e \in DOMAIN entities : \A o \in DOMAIN entities[e].occurrences :
                  \E i \in DOMAIN arg :
                      /\ arg[i].content_type = "text"
                      /\ arg[i].id = entities[e].occurrences[o].chunk_id

\* a list with a table chunk that holds entity words, and a text chunk in which
\* one name is mentioned twice and in two types
C26_Witness ==
    /\ ret # <<>>
    /\ Len(arg) = 2
    /\ arg[1].content_type = "table" /\ Ents(arg[1].content) # <<>>
    /\ arg[2].content_type = "text"
    /\ Len(ret[1].entities) = 2
    /\ ret[1].entities[1].normalized_name = ret[1].entities[2].normalized_name
    /\ ret[1].entities[1].type # ret[1].entities[2].type
    /\ Len(ret[1].entities[1].occurrences) = 2

(***************************************************************************)
(* The look-up of an existing document, and the clean-up after an error    *)
(***************************************************************************)
Successful == { i \in Uploads : up[i].outcome = "success" }

\* C27: for any sequence of uploads, the same file uploaded repeatedly
\* included, and fresh ids never colliding, upload_file never returns status
\* "exists": every successful upload adds a new document with a new id, so n
\* successful uploads leave n documents in the store.
C27_ExistsUnreachable ==
    /\ \A i \in Uploads : up[i].outcome # "exists"
    /\ \A i, j \in Successful :
          i # j => up[i].result[1].metadata.id # up[j].result[1].metadata.id
    /\ Cardinality(db.documents) = Cardinality(Successful)

\* the same file was uploaded twice and is stored twice
C27_Witness ==
    /\ Successful = {1, 2}
    /\ up[1].raised = "none" /\ up[2].raised = "none"
    /\ [k \in DOMAIN up[1].result[1].chunks |-> up[1].result[1].chunks[k].content]
         = [k \in DOMAIN up[2].result[1].chunks |-> up[2].result[1].chunks[k].content]
    /\ up[1].result[1].pages = [n \in DOMAIN up[2].result[1].pages |->
                                   [up[2].result[1].pages[n] EXCEPT !.document_id = DocId(1)]]
    /\ Cardinality(db.documents) = 2

\* upload i ended in an error after its file had been saved and ingested
FailedAfterSave(i) == up[i].outcome = "http_500" /\ up[i].result # <<>>

\* C28 as stated: whenever upload_file ends in an error after the uploaded file
\* was saved, the saved file is removed from the upload directory and no
\* document, page, chunk, entity or relationship of that upload remains in the
\* store.
C28_FileAlwaysRemoved ==
    \A i \in Uploads :
        FailedAfterSave(i) =>
            /\ FileId(i) \notin files
            /\ NoneStored(UploadRows(i))

\* C28 amended: whenever upload_file ends in an error after the uploaded file
\* was saved, no record of that upload remains in the store and delete_file
\* has been called on the saved file; the file is gone exactly when
\* delete_file returned True, and stays when the removal itself failed.
C28_FileRemovedIfDeletable ==
    \A i \in Uploads :
        FailedAfterSave(i) =>
            /\ NoneStored(UploadRows(i))
            /\ up[i].deleted # <<>>
            /\ up[i].deleted = <<TRUE>> <=> FileId(i) \notin files

\* store_data of one upload raised and its file was removed, while the file of
\* an upload that succeeded is kept
C28_Witness ==
    \E i, j \in Uploads :
        /\ FailedAfterSave(i)
        /\ up[i].deleted = <<TRUE>>
        /\ FileId(i) \notin files
        /\ up[j].outcome = "success"
        /\ FileId(j) \in files

(***************************************************************************)
(* The chunker keeps the words of a page                                   *)
(***************************************************************************)
\* the chunks the word loop made of page n, in chunk_index order: the chunks of
\* the page other than the fallback chunk
ChunksOfPage(result, n) ==
    SelectSeq(result.chunks, LAMBDA c : c.page_number = n /\ ~IsFallback(c))

\* C29: the chunker of ingest_pdf neither loses, duplicates nor reorders words
\* and emits no empty chunk: for every page, the contents of the page's chunks
\* joined in chunk_index order are exactly the whitespace-separated words of
\* the page text, and each chunk's token_count is the sum of the token counts
\* of its own words.
C29_ChunkerKeepsWords ==
    RanToEnd =>
        \A n \in DOMAIN arg.pdf.pages :
            LET of_page == ChunksOfPage(ret[1], n)
            IN  /\ Flatten([k \in DOMAIN of_page |-> of_page[k].content])
                     = Split(arg.pdf.pages[n].text)
                /\ \A k \in DOMAIN of_page :
                      /\ of_page[k].content # <<>>
                      /\ of_page[k].token_count
                           = SumSeq([w \in DOMAIN of_page[k].content |->
                                        TokenCount(of_page[k].content[w])])
                      /\ k > 1 => of_page[k].chunk_index = of_page[k - 1].chunk_index + 1

\* a page whose text holds whitespace between its two words was cut into two
\* chunks
C29_Witness ==
    /\ RanToEnd
    /\ \E n \in DOMAIN arg.pdf.pages :
          /\ WS \in Range(arg.pdf.pages[n].text)
          /\ Len(ChunksOfPage(ret[1], n)) = 2
          /\ Len(Split(arg.pdf.pages[n].text)) = 2

(***************************************************************************)
(* The arithmetic of the combined score.  search.py computes it in Python  *)
(* floats, IEEE 754 binary64: every operation gives the exact result       *)
(* rounded to 53 significant bits, ties to even.  A float is               *)
(* [sign, m, e] with value sign * m * 2^e, m odd or zero; m is a natural   *)
(* number written in base Limb, least significant limb first, in a fixed   *)
(* number of limbs.                                                        *)
(***************************************************************************)
Limb == 2 ^ 12

BigZero == <<0, 0, 0, 0, 0, 0, 0, 0, 0, 0>>

BigOne == <<1, 0, 0, 0, 0, 0, 0, 0, 0, 0>>

BigAdd(a, b) ==
    LET RECURSIVE Go(_, _)
        Go(i, carry) ==
            IF i > Len(a) THEN <<>>
            ELSE <<(a[i] + b[i] + carry) % Limb>> \o Go(i + 1, (a[i] + b[i] + carry) \div Limb)
    IN  Go(1, 0)

\* a - b for a >= b
BigSub(a, b) ==
    LET RECURSIVE Go(_, _)
        Go(i, borrow) ==
            IF i > Len(a) THEN <<>>
            ELSE LET d == a[i] - b[i] - borrow
                 IN  <<IF d < 0 THEN d + Limb ELSE d>> \o Go(i + 1, IF d < 0 THEN 1 ELSE 0)
    IN  Go(1, 0)

BigLess(a, b) ==
    LET RECURSIVE Go(_)
        Go(i) == IF i = 0 THEN FALSE
                 ELSE IF a[i] # b[i] THEN a[i] < b[i] ELSE Go(i - 1)
    IN  Go(Len(a))

BigMul(a, b) ==
    LET Col(k) == SumSeq([i \in 1..k |-> a[i] * b[k + 1 - i]])
        RECURSIVE Go(_, _)
        Go(k, carry) ==
            IF k > Len(a) THEN <<>>
            ELSE <<(Col(k) + carry) % Limb>> \o Go(k + 1, (Col(k) + carry) \div Limb)
    IN  Go(1, 0)

\* a shifted right by one bit
BigHalf(a) ==
    LET RECURSIVE Go(_)
        Go(i) ==
            IF i > Len(a) THEN <<>>
            ELSE <<(a[i] \div 2) + (IF i < Len(a) THEN (a[i + 1] % 2) * (Limb \div 2) ELSE 0)>>
                 \o Go(i + 1)
    IN  Go(1)

\* a shifted left by n bits: a * 2^n
BigShift(a, n) ==
    BigMul(a, [i \in 1..Len(a) |-> IF i = (n \div 12) + 1 THEN 2 ^ (n % 12) ELSE 0])

\* the float nearest to sign * m * 2^e, ties to even: m is halved until it has
\* at most 53 bits, the last bit dropped being the guard bit and the others
\* the sticky bit
FloatRound(sign, m, e) ==
    LET TooWide(x) == x[5] >= 2 ^ 5 \/ \E i \in 6..Len(x) : x[i] # 0
        RECURSIVE Shrink(_, _, _, _)
        Shrink(x, ex, guard, sticky) ==
            IF TooWide(x) THEN Shrink(BigHalf(x), ex + 1, x[1] % 2 = 1, sticky \/ guard)
            ELSE [m |-> x, e |-> ex, guard |-> guard, sticky |-> sticky]
        r == Shrink(m, e, FALSE, FALSE)
        round_up == r.guard /\ (r.sticky \/ r.m[1] % 2 = 1)
        RECURSIVE Canon(_, _)
        Canon(x, ex) ==
            IF x = BigZero THEN [sign |-> 1, m |-> BigZero, e |-> 0]
            ELSE IF x[1] % 2 = 0 THEN Canon(BigHalf(x), ex + 1)
            ELSE [sign |-> sign, m |-> x, e |-> ex]
    IN  Canon(IF round_up THEN BigAdd(r.m, BigOne) ELSE r.m, r.e)

\* x + y
FloatAdd(x, y) ==
    LET low == IF x.e < y.e THEN x.e ELSE y.e
        xm == BigShift(x.m, x.e - low)
        ym == BigShift(y.m, y.e - low)
    IN  CASE x.sign = y.sign -> FloatRound(x.sign, BigAdd(xm, ym), low)
          [] BigLess(xm, ym) -> FloatRound(y.sign, BigSub(ym, xm), low)
          [] OTHER -> FloatRound(x.sign, BigSub(xm, ym), low)

\* x - y
FloatSub(x, y) == FloatAdd(x, [y EXCEPT !.sign = 0 - @])

\* x * y
FloatMul(x, y) == FloatRound(x.sign * y.sign, BigMul(x.m, y.m), x.e + y.e)

\* x / 2
FloatHalf(x) == IF x.m = BigZero THEN x ELSE [x EXCEPT !.e = @ - 1]

\* x < y
FloatLess(x, y) == FloatSub(x, y).sign = 0 - 1

\* the float a decimal literal or a stored decimal value denotes, the decimal
\* given in hundredths
Double(h) ==
    CASE
         h = 0 -> [sign |-> 1, m |-> <<0, 0, 0, 0, 0, 0, 0, 0, 0, 0>>, e |-> 0]
      [] h = 20 -> [sign |-> 1, m |-> <<3277, 3276, 3276, 3276, 12, 0, 0, 0, 0, 0>>, e |-> -54]
      [] h = 30 -> [sign |-> 1, m |-> <<819, 819, 819, 819, 19, 0, 0, 0, 0, 0>>, e |-> -54]
      [] h = 50 -> [sign |-> 1, m |-> <<1, 0, 0, 0, 0, 0, 0, 0, 0, 0>>, e |-> -1]
      [] h = 90 -> [sign |-> 1, m |-> <<3277, 3276, 3276, 3276, 28, 0, 0, 0, 0, 0>>, e |-> -53]
      [] h = 100 -> [sign |-> 1, m |-> <<1, 0, 0, 0, 0, 0, 0, 0, 0, 0>>, e |-> 0]
      [] h = 120 -> [sign |-> 1, m |-> <<819, 819, 819, 819, 19, 0, 0, 0, 0, 0>>, e |-> -52]

\* combined_score as Python computes it, operation by operation and from left
\* to right; signals and weights in hundredths
FloatChatScore(base_score, importance_score, entity_score, relationship_score, structural_score, w) ==
    LET left == FloatSub(FloatSub(FloatSub(FloatSub(Double(100), Double(w.importance)),
                                           Double(w.entity)),
                                  Double(w.structural)),
                         Double(w.recency))
        t1 == FloatMul(Double(base_score), left)
        t2 == FloatMul(Double(importance_score), Double(w.importance))
        t3 == FloatHalf(FloatMul(FloatAdd(Double(entity_score), Double(relationship_score)),
                                 Double(w.entity)))
        t4 == FloatMul(Double(structural_score), Double(w.structural))
    IN  FloatAdd(FloatAdd(FloatAdd(t1, t2), t3), t4)

(***************************************************************************)
(* SpecScore applies the scoring and sorting steps of document_chat_search *)
(* to two rows of one document that differ in semantic_similarity only,    *)
(* with the default weights of the signature.                              *)
(***************************************************************************)
\* the signals of a row, in hundredths
SignalSets ==
    [ importance : {FIRST_PAGE_IMPORTANCE, PAGE_IMPORTANCE, FALLBACK_IMPORTANCE},
      entity_relevance : {0, 50, 100},
      relationship_relevance : {0, 100},
      structural_relevance : {20, 100} ]

Similarities == {0, 50, 90, 100}

InitScore ==
    /\ \E first \in Similarities, second \in Similarities, signals \in SignalSets :
         arg = [ similarities |-> <<first, second>>, signals |-> signals,
                 weights |-> DefaultWeights ]
    /\ ret = <<>>
    /\ Idle

\* the combined score of the row with the given semantic similarity
RowScore(a, semantic_similarity) ==
    FloatChatScore(semantic_similarity, a.signals.importance, a.signals.entity_relevance,
                   a.signals.relationship_relevance, a.signals.structural_relevance,
                   a.weights)

\* processed_results.sort(key=lambda x: x['score'], reverse=True) on two rows:
\* the sort is stable, rows of equal score keep their order
SortTwo(scores) == IF FloatLess(scores[1], scores[2]) THEN <<2, 1>> ELSE <<1, 2>>

CallScore ==
    /\ ret = <<>>
    /\ LET scores == << RowScore(arg, arg.similarities[1]), RowScore(arg, arg.similarities[2]) >>
       IN  ret' = <<[scores |-> scores, order |-> SortTwo(scores)]>>
    /\ UNCHANGED <<arg, files, db, up, resp>>

SpecScore == InitScore /\ [][CallScore]_vars

\* C30: with the default document_chat weights the coefficient of
\* semantic_similarity is 0, so two chunks that differ only in
\* semantic_similarity receive the same combined score and the ranking does
\* not depend on the query embedding.
C30_SimilarityHasNoInfluence ==
    ret # <<>> =>
        /\ ret[1].scores[1] = ret[1].scores[2]
        /\ ret[1].order = <<1, 2>>

====
